---- MODULE Spec2Model ----
(***************************************************************************)
(* ApexPocket: the affective core (Soul / AffectiveCore), its persistence  *)
(* chain (I2C EEPROM record, LittleFS document) and the cloud client.      *)
(*                                                                         *)
(* Numbers.  The firmware's float fields are carried as fixed-point        *)
(* integers with Scale units per 1.0 (E = 1.0 is Scale).  Products are     *)
(* formed in integers and rounded toward zero.  Intermediate values that   *)
(* would leave the integer range are carried as LIMIT; every such value is *)
(* far outside [0, MAX_E] and is clamped by the code that follows it, so   *)
(* the result is the one the unbounded value gives.  wisdom alone is       *)
(* carried as the bit pattern of its float (see IEEE-754 below).           *)
(* millis() is the variable now, in milliseconds.                          *)
(***************************************************************************)
EXTENDS Integers, Sequences, FiniteSets, TLC

VARIABLES
    now,      \* millis()
    variant,  \* which engine this build runs: "Soul" or "AffectiveCore"
    soul,     \* class Soul: data (SoulData), lastUpdate, lastSave, dirty
    core,     \* class AffectiveCore: E, E_floor, lastUpdate, lastCare, ...
    hw,       \* HardwareStatus: eeprom_found, littlefs_available
    env,      \* the devices right now: eepromAck (I2C device answers), fsOk
    store,    \* what the two storage tiers hold: eeprom bytes, /soul.json
    cloud,    \* class CloudClient: initialized, configured, status
    main,     \* main.cpp globals: wifiConnected, offlineMode, lastAutoSync
    obs,      \* what the last call did (its name, result, requests issued)
    calls,    \* how many calls have been made (bounds the engine runs)
    phase     \* "run" while the firmware runs, "off" while powered down

vars == <<now, variant, soul, core, hw, env, store, cloud, main, obs, calls,
          phase>>

(***************************************************************************)
(* Fixed-point arithmetic                                                  *)
(***************************************************************************)
Scale == 1000

LIMIT == 2000000000

Min(a, b) == IF a < b THEN a ELSE b

Max(a, b) == IF a > b THEN a ELSE b

Abs(a) == IF a < 0 THEN -a ELSE a

SatAdd(a, b) == IF a > LIMIT - b THEN LIMIT ELSE a + b

SatMul(a, b) == IF a = 0 \/ b = 0 THEN 0
                ELSE IF a > LIMIT \div b THEN LIMIT ELSE a * b

\* floor(a * b / c) for a, b >= 0, c > 0, never leaving the integer range;
\* LIMIT when the quotient is LIMIT or more.
SatMulDiv(a, b, c) ==
    LET qa == a \div c
        ra == a % c
        qb == b \div c
        rb == b % c
    IN  SatAdd(SatAdd(SatMul(SatMul(qa, qb), c), SatMul(qa, rb)),
               SatAdd(SatMul(ra, qb), (ra * rb) \div c))

RECURSIVE Pow2(_)
Pow2(n) == IF n <= 0 THEN 1 ELSE 2 * Pow2(n - 1)

(***************************************************************************)
(* IEEE-754 single precision                                               *)
(*                                                                         *)
(* wisdom is carried as the bit pattern of the float the firmware holds    *)
(* (its four stored bytes are LE4 of it); it is the one soul field that    *)
(* takes values below 2^-6, where the decimal text of the JSON tier has    *)
(* fewer digits than the float.  For non-negative floats the order of the  *)
(* bit patterns is the order of the values.  A float is m * 2^e with       *)
(* 2^23 <= m < 2^24.                                                       *)
(***************************************************************************)
FLOAT_ZERO == 0

FLOAT_ONE == 1065353216

\* Exact quotient and remainder of a * b / c, one bit of a at a time;
\* needs 2 * c + b < 2^31.
RECURSIVE MulDivRem(_, _, _)
MulDivRem(a, b, c) ==
    IF a = 0 THEN [q |-> 0, r |-> 0]
    ELSE LET h == MulDivRem(a \div 2, b, c)
             x == 2 * h.r + (IF a % 2 = 1 THEN b ELSE 0)
         IN  [q |-> 2 * h.q + x \div c, r |-> x % c]

\* Round to nearest, ties to even: the quotient q with remainder r of a
\* division by c.
RoundNearestEven(q, r, c) ==
    IF r > c - r \/ (r = c - r /\ q % 2 = 1) THEN q + 1 ELSE q

\* The bit pattern of m * 2^e for 2^23 <= m <= 2^24 (m = 2^24, reached by
\* rounding up, carries into the exponent field).
FloatPack(m, e) == (e + 149) * 8388608 + m

FloatMant(b) == 8388608 + (b % 8388608)

FloatExp(b) == (b \div 8388608) - 150

\* Conversion of an unsigned integer to float: p as m * 2^e with m < 2^24.
FloatOfInt(p) ==
    IF p < 16777216 THEN [m |-> p, e |-> 0]
    ELSE LET s == CHOOSE s \in 1..7 : p \div Pow2(s) < 16777216
                                      /\ p \div Pow2(s - 1) >= 16777216
         IN  [m |-> RoundNearestEven(p \div Pow2(s), p % Pow2(s), Pow2(s)),
              e |-> s]

\* the number of bits of n
RECURSIVE BitLength(_)
BitLength(n) == IF n = 0 THEN 0 ELSE 1 + BitLength(n \div 2)

\* The float nearest to P * 2^sh / c for 2^29 <= P < 2^30 and c < 5 * 10^8:
\* t is the shift that brings the quotient into [2^23, 2^24).
FloatOfNormalized(P, c, sh) ==
    LET t == 24 - BitLength(P \div c)
        d == MulDivRem(Pow2(t), P, c)
    IN  FloatPack(RoundNearestEven(d.q, d.r, c), sh - t)

\* The float nearest to p * 2^sh / c, for 0 < p < 2^30 and c < 5 * 10^8.
FloatOfRatio(p, c, sh) ==
    FloatOfNormalized(p * Pow2(30 - BitLength(p)), c,
                      sh - (30 - BitLength(p)))

\* 0.01f is 10737418 * 2^-30.
FLOAT_CENT_MANT == 10737418

\* f * 0.01f for a float f > 0.
FloatTimesCent(f) ==
    LET m  == FloatMant(f)
        lo == MulDivRem(m, FLOAT_CENT_MANT, 8388608)
        hi == MulDivRem(m, FLOAT_CENT_MANT, 16777216)
    IN  IF lo.q < 16777216
        THEN FloatPack(RoundNearestEven(lo.q, lo.r, 8388608),
                       FloatExp(f) - 30 + 23)
        ELSE FloatPack(RoundNearestEven(hi.q, hi.r, 16777216),
                       FloatExp(f) - 30 + 24)

(***************************************************************************)
(* config.h                                                                *)
(***************************************************************************)
MAX_E == 100 * Scale

INITIAL_E == Scale

INITIAL_FLOOR == Scale

\* enum AffectiveState
STATE_PROTECTING == 0

STATE_GUARDED == 1

STATE_TENDER == 2

STATE_WARM == 3

STATE_FLOURISHING == 4

STATE_RADIANT == 5

STATE_TRANSCENDENT == 6

E_GUARDED == Scale \div 2

E_TENDER == Scale

E_WARM == 2 * Scale

E_FLOURISHING == 5 * Scale

E_RADIANT == 12 * Scale

E_TRANSCENDENT == 30 * Scale

SAVE_INTERVAL_MS == 60000

MS_PER_MINUTE == 60000

MS_PER_DAY == 86400000

\* FW_VERSION "2.0.0" in the 16-byte firmwareVersion field (NUL padded)
FW_VERSION_BYTES == <<50, 46, 48, 46, 48, 0, 0, 0, 0, 0, 0, 0, 0, 0, 0, 0>>

(***************************************************************************)
(* The love equation: dE/dt = beta(E) * (C - D) * E                        *)
(***************************************************************************)
\* BETA_BASE * (1 + E/10) with BETA_BASE = 0.008, in millionths
Beta(E) == (8 * (10 * Scale + E)) \div 10

\* beta() * (care - damage) * E * dt, in Scale units (dt in Scale-ths of a
\* minute); the sign is that of care - damage
DeltaE(E, care, damage, dt) ==
    LET cd   == care - damage
        rate == SatMulDiv(Beta(E), Abs(cd), Scale)
        perM == SatMulDiv(rate, E, Scale)
        mag  == SatMulDiv(perM, dt, Scale) \div (1000000 \div Scale)
    IN  IF cd < 0 THEN -mag ELSE mag

\* (E - E_floor) * FLOOR_RATE * dt with FLOOR_RATE = 0.0001
FloorDelta(E, floor, dt) == SatMulDiv(E - floor, dt, Scale) \div 10000

\* the elapsed minutes (now - lastUpdate) / 60000.0f, in Scale-ths
MinutesBetween(t0, t1) == SatMulDiv(t1 - t0, Scale, MS_PER_MINUTE)

(***************************************************************************)
(* Bytes                                                                   *)
(***************************************************************************)
RECURSIVE Xor(_, _)
Xor(a, b) == IF a = 0 THEN b
             ELSE IF b = 0 THEN a
             ELSE (((a % 2) + (b % 2)) % 2) + 2 * Xor(a \div 2, b \div 2)

\* the four bytes of a 32-bit value, least significant first (ESP32 is
\* little-endian); a negative value is stored in two's complement
LE4(n) ==
    LET m == IF n < 0 THEN (n + 2147483647) + 1 ELSE n
        top == (m \div 16777216) % 256
    IN  <<m % 256, (m \div 256) % 256, (m \div 65536) % 256,
          IF n < 0 THEN top + 128 ELSE top>>

\* the 32-bit value of four bytes; values of 2^31 and above read as negative
FromLE4(b) ==
    b[1] + (256 * b[2]) + (65536 * b[3])
         + (16777216 * (IF b[4] >= 128 THEN b[4] - 256 ELSE b[4]))

Slice(seq, from, len) == [i \in 1..len |-> seq[from + i - 1]]

(***************************************************************************)
(* struct SoulData: 80 bytes, the checksum in the last four                *)
(***************************************************************************)
SOUL_SIZE == 80

CHECKSUM_SIZE == 4

StructBytes(d) ==
    LE4(d.E) \o LE4(d.E_floor) \o LE4(d.E_peak)
    \o LE4(d.interactions) \o LE4(d.totalCare) \o LE4(d.birthTime)
    \o LE4(d.lastCareTime) \o LE4(d.totalAwakeTime)
    \o <<d.agentIndex, 0, 0, 0>>
    \o LE4(d.curiosity) \o LE4(d.playfulness) \o LE4(d.wisdom)
    \o d.firmwareVersion
    \o LE4(d.totalChats) \o LE4(d.totalSyncs) \o LE4(d.lastSyncTime)
    \o LE4(d.checksum)

StructFromBytes(b) ==
    [E              |-> FromLE4(Slice(b, 1, 4)),
     E_floor        |-> FromLE4(Slice(b, 5, 4)),
     E_peak         |-> FromLE4(Slice(b, 9, 4)),
     interactions   |-> FromLE4(Slice(b, 13, 4)),
     totalCare      |-> FromLE4(Slice(b, 17, 4)),
     birthTime      |-> FromLE4(Slice(b, 21, 4)),
     lastCareTime   |-> FromLE4(Slice(b, 25, 4)),
     totalAwakeTime |-> FromLE4(Slice(b, 29, 4)),
     agentIndex     |-> b[33],
     curiosity      |-> FromLE4(Slice(b, 37, 4)),
     playfulness    |-> FromLE4(Slice(b, 41, 4)),
     wisdom         |-> FromLE4(Slice(b, 45, 4)),
     firmwareVersion |-> Slice(b, 49, 16),
     totalChats     |-> FromLE4(Slice(b, 65, 4)),
     totalSyncs     |-> FromLE4(Slice(b, 69, 4)),
     lastSyncTime   |-> FromLE4(Slice(b, 73, 4)),
     checksum       |-> FromLE4(Slice(b, 77, 4))]

\* sum += ptr[i] * (i + 1) over the first n bytes (i from 0)
RECURSIVE WeightedSum(_, _)
WeightedSum(bytes, n) ==
    IF n = 0 THEN 0 ELSE (bytes[n] * n) + WeightedSum(bytes, n - 1)

CHECKSUM_XOR == 43503

ChecksumOfBytes(bytes) ==
    Xor(WeightedSum(bytes, SOUL_SIZE - CHECKSUM_SIZE), CHECKSUM_XOR)

calculateChecksum(d) == ChecksumOfBytes(StructBytes(d))

(***************************************************************************)
(* EEPROM layout (config.h) and the I2C transfers                          *)
(***************************************************************************)
EEPROM_MAGIC_ADDR == 0

EEPROM_VERSION_ADDR == 4

EEPROM_SOUL_ADDR == 16

EEPROM_MAGIC == 1095779672

EEPROM_SCHEMA_VERSION == 2

\* the part of the device the soul record lives in: addresses 0 .. 0x5F
EEPROM_CLOUD_ADDR == 96

BlankEeprom == [a \in 1..EEPROM_CLOUD_ADDR |-> 255]

\* the addresses of the persisted record: magic, version, SoulData
RecordAddrs ==
    (EEPROM_MAGIC_ADDR .. EEPROM_MAGIC_ADDR + 3)
    \cup {EEPROM_VERSION_ADDR}
    \cup (EEPROM_SOUL_ADDR .. EEPROM_SOUL_ADDR + SOUL_SIZE - 1)

\* eepromWrite: the bytes go out in 16-byte chunks; the result of
\* Wire.endTransmission() is not looked at, so a device that does not
\* acknowledge leaves the memory as it was and the caller is not told
eepromWrite(mem, addr, bytes, ack) ==
    IF ack
    THEN [a \in 1..Len(mem) |->
            IF a - 1 >= addr /\ a - 1 < addr + Len(bytes)
            THEN bytes[a - addr] ELSE mem[a]]
    ELSE mem

\* eepromRead: bytes are copied only while Wire.available(); a device that
\* does not answer leaves the buffer as it was
eepromRead(mem, addr, len, ack, buf) ==
    IF ack THEN Slice(mem, addr + 1, len) ELSE buf

(***************************************************************************)
(* /soul.json on LittleFS                                                  *)
(***************************************************************************)
NoDoc == [E |-> 0, E_floor |-> 0, E_peak |-> 0, interactions |-> 0,
          total_care |-> 0, birth_time |-> 0, agent |-> 0,
          curiosity |-> 0, playfulness |-> 0,
          wisdom |-> [form |-> "fixed", digits |-> 0]]

AbsentFile == [kind |-> "absent", doc |-> NoDoc]

GarbageFile == [kind |-> "garbage", doc |-> NoDoc]

\* serializeJson of a float: ArduinoJson writes nine decimal places
\* (rounding half up) for a value above 1e-5 and below 1e7, and ten
\* significant digits with an exponent otherwise.  The text is held as the
\* count of 10^-9 it spells; ten significant digits determine a float, so
\* the exponent form is held as the float it spells.
JSON_EXPONENT_MAX == 925353388

JsonFloatText(b) ==
    IF b = FLOAT_ZERO THEN [form |-> "fixed", digits |-> 0]
    ELSE IF b <= JSON_EXPONENT_MAX THEN [form |-> "exponent", digits |-> b]
    ELSE IF b >= FLOAT_ONE THEN [form |-> "fixed", digits |-> 1000000000]
    ELSE LET halves == MulDivRem(FloatMant(b), 1953125, 16384).q
                           \div Pow2(-FloatExp(b) - 24)
         IN  [form |-> "fixed", digits |-> (halves + 1) \div 2]

\* deserializeJson and as<float>(): the float nearest to the decimal text
JsonFloatValue(x) ==
    IF x.form = "exponent" THEN x.digits
    ELSE IF x.digits = 0 THEN FLOAT_ZERO
    ELSE FloatOfRatio(x.digits, 1953125, -9)

\* the document saveToLittleFS serializes.  E, E_floor, E_peak, total_care,
\* curiosity and playfulness are 0 or at least 0.1 here, where nine decimal
\* places determine the float: their text is held as the value.
SoulDoc(d) ==
    [E |-> d.E, E_floor |-> d.E_floor, E_peak |-> d.E_peak,
     interactions |-> d.interactions, total_care |-> d.totalCare,
     birth_time |-> d.birthTime, agent |-> d.agentIndex,
     curiosity |-> d.curiosity, playfulness |-> d.playfulness,
     wisdom |-> JsonFloatText(d.wisdom)]

(***************************************************************************)
(* class Soul                                                              *)
(***************************************************************************)
\* Soul::reset; the checksum field is not assigned
SoulReset(s, t) ==
    [data |-> [E |-> INITIAL_E, E_floor |-> INITIAL_FLOOR, E_peak |-> INITIAL_E,
               interactions |-> 0, totalCare |-> 0,
               birthTime |-> t, lastCareTime |-> t, totalAwakeTime |-> 0,
               agentIndex |-> 0,
               curiosity |-> Scale \div 10, playfulness |-> Scale \div 10,
               wisdom |-> FLOAT_ZERO,
               firmwareVersion |-> FW_VERSION_BYTES,
               totalChats |-> 0, totalSyncs |-> 0, lastSyncTime |-> 0,
               checksum |-> s.data.checksum],
     lastUpdate |-> t, lastSave |-> t, dirty |-> FALSE]

\* the global object before its constructor runs: static storage is zeroed
ZeroSoul ==
    [data |-> [E |-> 0, E_floor |-> 0, E_peak |-> 0,
               interactions |-> 0, totalCare |-> 0,
               birthTime |-> 0, lastCareTime |-> 0, totalAwakeTime |-> 0,
               agentIndex |-> 0, curiosity |-> 0, playfulness |-> 0,
               wisdom |-> 0,
               firmwareVersion |-> [i \in 1..16 |-> 0],
               totalChats |-> 0, totalSyncs |-> 0, lastSyncTime |-> 0,
               checksum |-> 0],
     lastUpdate |-> 0, lastSave |-> 0, dirty |-> FALSE]

\* Soul::Soul() { reset(); }
NewSoul(t) == SoulReset(ZeroSoul, t)

\* Soul::saveToEEPROM -> [soul, eeprom, ret]
saveToEEPROM(s, mem, h, e) ==
    IF ~h.eeprom_found
    THEN [soul |-> s, eeprom |-> mem, ret |-> FALSE]
    ELSE LET m1 == eepromWrite(mem, EEPROM_MAGIC_ADDR, LE4(EEPROM_MAGIC),
                               e.eepromAck)
             m2 == eepromWrite(m1, EEPROM_VERSION_ADDR,
                               <<EEPROM_SCHEMA_VERSION>>, e.eepromAck)
             d  == [s.data EXCEPT !.checksum = calculateChecksum(s.data)]
             m3 == eepromWrite(m2, EEPROM_SOUL_ADDR, StructBytes(d),
                               e.eepromAck)
         IN  [soul |-> [s EXCEPT !.data = d], eeprom |-> m3, ret |-> TRUE]

\* loadFromEEPROM trusting the record on its magic alone, the checksum not
\* compared
loadFromEEPROMMagicOnly(s, mem, h, e, t) ==
    IF ~h.eeprom_found
    THEN [soul |-> s, ret |-> FALSE]
    ELSE LET magic == FromLE4(eepromRead(mem, EEPROM_MAGIC_ADDR, 4,
                                         e.eepromAck, <<0, 0, 0, 0>>))
             loaded == eepromRead(mem, EEPROM_SOUL_ADDR, SOUL_SIZE,
                                  e.eepromAck, [i \in 1..SOUL_SIZE |-> 0])
         IN  IF magic # EEPROM_MAGIC
             THEN [soul |-> s, ret |-> FALSE]
             ELSE [soul |-> [s EXCEPT
                       !.data = [StructFromBytes(loaded) EXCEPT
                                    !.lastCareTime = t],
                       !.lastUpdate = t],
                   ret |-> TRUE]

\* Soul::loadFromEEPROM -> [soul, ret]
loadFromEEPROM(s, mem, h, e, t) ==
    IF ~h.eeprom_found
    THEN [soul |-> s, ret |-> FALSE]
    ELSE LET magic == FromLE4(eepromRead(mem, EEPROM_MAGIC_ADDR, 4,
                                         e.eepromAck, <<0, 0, 0, 0>>))
         IN  IF magic # EEPROM_MAGIC
             THEN [soul |-> s, ret |-> FALSE]
             ELSE LET loaded == eepromRead(mem, EEPROM_SOUL_ADDR, SOUL_SIZE,
                                           e.eepromAck,
                                           [i \in 1..SOUL_SIZE |-> 0])
                      savedChecksum ==
                          FromLE4(Slice(loaded, SOUL_SIZE - CHECKSUM_SIZE + 1,
                                        CHECKSUM_SIZE))
                      sum == ChecksumOfBytes(loaded)
                  IN  IF sum = savedChecksum
                      THEN [soul |-> [s EXCEPT
                                !.data = [StructFromBytes(loaded) EXCEPT
                                             !.lastCareTime = t],
                                !.lastUpdate = t],
                            ret |-> TRUE]
                      ELSE [soul |-> s, ret |-> FALSE]

\* Soul::saveToLittleFS -> [file, ret]; LittleFS.open(.., "w") fails when the
\* file system cannot take the write
saveToLittleFS(s, file, e) ==
    IF e.fsOk
    THEN [file |-> [kind |-> "doc", doc |-> SoulDoc(s.data)], ret |-> TRUE]
    ELSE [file |-> file, ret |-> FALSE]

\* Soul::loadFromLittleFS -> [soul, ret]
loadFromLittleFS(s, file, t) ==
    IF file.kind = "absent"
    THEN [soul |-> s, ret |-> FALSE]
    ELSE IF file.kind = "garbage"
    THEN [soul |-> s, ret |-> FALSE]
    ELSE LET j == file.doc
         IN  [soul |-> [s EXCEPT
                  !.data = [s.data EXCEPT
                      !.E = j.E, !.E_floor = j.E_floor, !.E_peak = j.E_peak,
                      !.interactions = j.interactions,
                      !.totalCare = j.total_care,
                      !.birthTime = j.birth_time,
                      !.agentIndex = j.agent,
                      !.curiosity = j.curiosity,
                      !.playfulness = j.playfulness,
                      !.wisdom = JsonFloatValue(j.wisdom),
                      !.lastCareTime = t],
                  !.lastUpdate = t],
              ret |-> TRUE]

\* Soul::save -> [soul, store, ret, tier]; tier names the tier that
\* answered for the result
SoulSave(s, st, h, e, t) ==
    LET s1 == [s EXCEPT !.lastSave = t, !.dirty = FALSE,
                        !.data.checksum = calculateChecksum(s.data)]
        ee == saveToEEPROM(s1, st.eeprom, h, e)
    IN  IF h.eeprom_found /\ ee.ret
        THEN [soul |-> ee.soul, store |-> [st EXCEPT !.eeprom = ee.eeprom],
              ret |-> TRUE, tier |-> "eeprom"]
        ELSE IF h.littlefs_available
        THEN LET fs == saveToLittleFS(s1, st.file, e)
             IN  [soul |-> s1, store |-> [st EXCEPT !.file = fs.file],
                  ret |-> fs.ret, tier |-> "littlefs"]
        ELSE [soul |-> s1, store |-> st, ret |-> FALSE, tier |-> "none"]

\* Soul::load -> [soul, ret, eeprom, littlefs, reset]; eeprom and littlefs
\* tell what became of each tier: "absent" (not found at boot), "rejected",
\* "accepted", or "skipped" (never consulted)
SoulLoad(s, st, h, e, t) ==
    LET ee == loadFromEEPROM(s, st.eeprom, h, e, t)
        fs == loadFromLittleFS(s, st.file, t)
        eeSeen == IF h.eeprom_found THEN "rejected" ELSE "absent"
    IN  IF h.eeprom_found /\ ee.ret
        THEN [soul |-> ee.soul, ret |-> TRUE, eeprom |-> "accepted",
              littlefs |-> "skipped", reset |-> FALSE]
        ELSE IF h.littlefs_available /\ fs.ret
        THEN [soul |-> fs.soul, ret |-> TRUE, eeprom |-> eeSeen,
              littlefs |-> "accepted", reset |-> FALSE]
        ELSE [soul |-> SoulReset(s, t), ret |-> FALSE, eeprom |-> eeSeen,
              littlefs |-> IF h.littlefs_available THEN "rejected"
                           ELSE "absent",
              reset |-> TRUE]

\* Soul::updateFirmwareVersion: strlcpy writes "2.0.0" and its NUL over the
\* head of the field and leaves the bytes behind them
updateFirmwareVersion(s) ==
    [s EXCEPT !.data.firmwareVersion =
        [i \in 1..16 |-> IF i <= 6 THEN FW_VERSION_BYTES[i]
                         ELSE s.data.firmwareVersion[i]]]

\* Soul::evolvePersonality, on the SoulData after the love equation
evolvePersonality(d, care, dt, t) ==
    [d EXCEPT
        !.curiosity = IF d.E < E_FLOURISHING /\ care > 0
                      THEN Min(Scale, d.curiosity + (dt \div 1000))
                      ELSE d.curiosity,
        !.playfulness = IF d.E >= E_FLOURISHING
                        THEN Min(Scale, d.playfulness + (dt \div 2000))
                        ELSE d.playfulness,
        \* (millis() - birthTime) / 86400000.0f, then * 0.01f, each
        \* rounded to float; birthTime never exceeds millis()
        !.wisdom = IF t - d.birthTime <= 0 THEN FLOAT_ZERO
                   ELSE LET age == FloatOfInt(t - d.birthTime)
                            daysTogether ==
                                FloatOfRatio(age.m, MS_PER_DAY, age.e)
                        IN  Min(FLOAT_ONE, FloatTimesCent(daysTogether))]

\* the love equation with the lower bound max(E_floor, E) left out
SoulLoveStepNoFloorBound(d, care, damage, dt) ==
    LET E1 == d.E + DeltaE(d.E, care, damage, dt)
        E2 == Min(MAX_E, E1)
        fl == IF E2 > d.E_floor
              THEN Min(E2, d.E_floor + FloorDelta(E2, d.E_floor, dt))
              ELSE d.E_floor
    IN  [d EXCEPT !.E = E2, !.E_floor = fl,
                  !.E_peak = IF E2 > d.E_peak THEN E2 ELSE d.E_peak]

\* the love equation with the floor following E whenever the two differ,
\* before E is bounded from below
SoulLoveStepFloorFollows(d, care, damage, dt) ==
    LET E1 == d.E + DeltaE(d.E, care, damage, dt)
        E2 == Min(MAX_E, E1)
        fl == IF E2 # d.E_floor
              THEN Min(E2, d.E_floor
                           + FloorDelta(Max(E2, d.E_floor), d.E_floor, dt))
              ELSE d.E_floor
        E3 == Max(fl, E2)
    IN  [d EXCEPT !.E = E3, !.E_floor = fl,
                  !.E_peak = IF E3 > d.E_peak THEN E3 ELSE d.E_peak]

\* the love equation with E_peak set to the new E on every call
SoulLoveStepPeakFollows(d, care, damage, dt) ==
    LET E1 == d.E + DeltaE(d.E, care, damage, dt)
        E2 == Min(MAX_E, E1)
        E3 == Max(d.E_floor, E2)
        fl == IF E3 > d.E_floor
              THEN Min(E3, d.E_floor + FloorDelta(E3, d.E_floor, dt))
              ELSE d.E_floor
    IN  [d EXCEPT !.E = E3, !.E_floor = fl, !.E_peak = E3]

\* the love equation and the bounds of Soul::update, on SoulData
SoulLoveStep(d, care, damage, dt) ==
    LET E1 == d.E + DeltaE(d.E, care, damage, dt)
        E2 == Min(MAX_E, E1)
        E3 == Max(d.E_floor, E2)
        fl == IF E3 > d.E_floor
              THEN Min(E3, d.E_floor + FloorDelta(E3, d.E_floor, dt))
              ELSE d.E_floor
    IN  [d EXCEPT !.E = E3, !.E_floor = fl,
                  !.E_peak = IF E3 > d.E_peak THEN E3 ELSE d.E_peak]

\* Soul::update, care tracking: totalCare and lastCareTime after a call
\* with care > 0
CareTracked(d, care, t) ==
    IF care > 0
    THEN [d EXCEPT !.totalCare = d.totalCare + care, !.lastCareTime = t]
    ELSE d

\* Soul::update, auto-save: save() when SAVE_INTERVAL_MS have passed since
\* the last one
SavedNow(sv) ==
    [soul |-> sv.soul, store |-> sv.store, accepted |-> TRUE, saved |-> TRUE]

SoulAutoSave(s, st, h, e, t) ==
    IF t - s.lastSave > SAVE_INTERVAL_MS
    THEN SavedNow(SoulSave(s, st, h, e, t))
    ELSE [soul |-> s, store |-> st, accepted |-> TRUE, saved |-> FALSE]

\* Soul::update past its test of dt: the love equation, the care tracking,
\* the personality, the auto-save
SoulUpdateApply(s, st, h, e, care, damage, dt, t) ==
    SoulAutoSave(
        [s EXCEPT
            !.lastUpdate = t,
            !.data = evolvePersonality(
                         CareTracked(SoulLoveStep(s.data, care, damage, dt),
                                     care, t),
                         care, dt, t),
            !.dirty = IF care > 0 THEN TRUE ELSE s.dirty],
        st, h, e, t)

\* Soul::update with the test dt > 60 left out
SoulUpdateNoUpperBound(s, st, h, e, care, damage, t) ==
    LET dt == MinutesBetween(s.lastUpdate, t)
    IN  IF dt <= 0
        THEN [soul |-> [s EXCEPT !.lastUpdate = t], store |-> st,
              accepted |-> FALSE, saved |-> FALSE]
        ELSE SoulUpdateApply(s, st, h, e, care, damage, dt, t)

\* Soul::update -> [soul, store, accepted, saved]
SoulUpdate(s, st, h, e, care, damage, t) ==
    LET dt == MinutesBetween(s.lastUpdate, t)
    IN  IF dt <= 0 \/ dt > 60 * Scale
        THEN [soul |-> [s EXCEPT !.lastUpdate = t], store |-> st,
              accepted |-> FALSE, saved |-> FALSE]
        ELSE SoulUpdateApply(s, st, h, e, care, damage, dt, t)

\* Soul::applyCare
SoulApplyCare(s, st, h, e, intensity, t) ==
    SoulUpdate([s EXCEPT !.data.interactions = s.data.interactions + 1],
               st, h, e, intensity, 0, t)

\* Soul::applyDamage
SoulApplyDamage(s, st, h, e, intensity, t) ==
    SoulUpdate(s, st, h, e, 0, intensity, t)

\* Soul::applyNeglect: damage = (minutes / 60) * 0.1
SoulApplyNeglect(s, st, h, e, minutes, t) ==
    SoulUpdate(s, st, h, e, 0, minutes \div 600, t)

\* Soul::getState with >= in place of >
getStateInclusive(s) ==
    IF s.data.E >= E_TRANSCENDENT THEN STATE_TRANSCENDENT
    ELSE IF s.data.E >= E_RADIANT THEN STATE_RADIANT
    ELSE IF s.data.E >= E_FLOURISHING THEN STATE_FLOURISHING
    ELSE IF s.data.E >= E_WARM THEN STATE_WARM
    ELSE IF s.data.E >= E_TENDER THEN STATE_TENDER
    ELSE IF s.data.E >= E_GUARDED THEN STATE_GUARDED
    ELSE STATE_PROTECTING

\* Soul::getState
getState(s) ==
    IF s.data.E > E_TRANSCENDENT THEN STATE_TRANSCENDENT
    ELSE IF s.data.E > E_RADIANT THEN STATE_RADIANT
    ELSE IF s.data.E > E_FLOURISHING THEN STATE_FLOURISHING
    ELSE IF s.data.E > E_WARM THEN STATE_WARM
    ELSE IF s.data.E > E_TENDER THEN STATE_TENDER
    ELSE IF s.data.E > E_GUARDED THEN STATE_GUARDED
    ELSE STATE_PROTECTING

(***************************************************************************)
(* class AffectiveCore (the earlier engine, with an explicit dt)           *)
(***************************************************************************)
NewCore ==
    [E |-> INITIAL_E, E_floor |-> INITIAL_FLOOR, lastUpdate |-> 0,
     lastCare |-> 0, birthTime |-> 0, interactions |-> 0, totalCare |-> 0]

\* AffectiveCore::update; dt_minutes < 0 asks for the elapsed time
CoreUpdate(c, care, damage, dt_minutes, t) ==
    LET dt == IF dt_minutes < 0 THEN MinutesBetween(c.lastUpdate, t)
              ELSE dt_minutes
        c0 == [c EXCEPT !.lastUpdate = t]
    IN  IF dt <= 0
        THEN c0
        ELSE LET E1 == c.E + DeltaE(c.E, care, damage, dt)
                 E2 == Min(MAX_E, E1)
                 E3 == Max(c.E_floor, E2)
                 fl == IF E3 > c.E_floor
                       THEN Min(E3, c.E_floor + FloorDelta(E3, c.E_floor, dt))
                       ELSE c.E_floor
             IN  [c0 EXCEPT !.E = E3, !.E_floor = fl,
                     !.totalCare = IF care > 0 THEN c.totalCare + care
                                   ELSE c.totalCare,
                     !.lastCare = IF care > 0 THEN t ELSE c.lastCare]

\* AffectiveCore::applyCare: one minute per interaction
CoreApplyCare(c, intensity, t) ==
    CoreUpdate([c EXCEPT !.interactions = c.interactions + 1],
               intensity, 0, Scale, t)

\* AffectiveCore::applyDamage
CoreApplyDamage(c, intensity, t) == CoreUpdate(c, 0, intensity, Scale, t)

\* AffectiveCore::applyNeglect: damage = (minutes / 60) * 0.1, dt = minutes
CoreApplyNeglect(c, minutes, t) ==
    CoreUpdate(c, 0, minutes \div 600, minutes, t)

\* The love equation of AffectiveCore::update at a resolution of 10^-6, where
\* the growth of the increment from one call to the next is visible (at
\* Scale it is below one unit).  E, E_floor, care, damage and dt are in
\* millionths; the inputs keep every intermediate value below LIMIT.
FineScale == 1000000

\* floor(a * b / c), exact; needs 2 * c + b < 2^31 and a quotient below 2^31
FineMulDiv(a, b, c) == MulDivRem(a, b, c).q

\* AffectiveCore::beta: BETA_BASE * (1 + E/10) with BETA_BASE = 0.008, in
\* units of 10^-8
FineBeta(E) == (8 * (10 * FineScale + E)) \div 100

\* beta() * (care - damage) * E * dt in millionths, for care >= damage
FineDeltaE(E, care, damage, dt) ==
    FineMulDiv(FineMulDiv(FineMulDiv(FineBeta(E), E, FineScale),
                          care - damage, FineScale),
               dt, FineScale) \div 100

\* (E - E_floor) * FLOOR_RATE * dt
FineFloorDelta(E, floor, dt) ==
    FineMulDiv(E - floor, dt, FineScale) \div 10000

\* the floor after the step
FineFloor(E, floor, dt) ==
    IF E > floor THEN Min(E, floor + FineFloorDelta(E, floor, dt)) ELSE floor

\* AffectiveCore::update past its test of dt, with min in place of
\* max(E_floor, E)
CoreLoveStepFineMinFloor(c, care, damage, dt) ==
    [c EXCEPT !.E = Min(c.E_floor,
                        Min(MAX_E * (FineScale \div Scale),
                            c.E + FineDeltaE(c.E, care, damage, dt)))]

\* AffectiveCore::update past its test of dt, for care >= damage: E and
\* E_floor
CoreLoveStepFine(c, care, damage, dt) ==
    [c EXCEPT
        !.E = Max(c.E_floor,
                  Min(MAX_E * (FineScale \div Scale),
                      c.E + FineDeltaE(c.E, care, damage, dt))),
        !.E_floor = FineFloor(Max(c.E_floor,
                                  Min(MAX_E * (FineScale \div Scale),
                                      c.E + FineDeltaE(c.E, care, damage,
                                                       dt))),
                              c.E_floor, dt)]

\* AffectiveCore::getState; E_THRESHOLD_GUARDED .. E_THRESHOLD_TRANSCENDENT
\* carry the values of E_GUARDED .. E_TRANSCENDENT
CoreGetState(c) ==
    IF c.E > E_TRANSCENDENT THEN STATE_TRANSCENDENT
    ELSE IF c.E > E_RADIANT THEN STATE_RADIANT
    ELSE IF c.E > E_FLOURISHING THEN STATE_FLOURISHING
    ELSE IF c.E > E_WARM THEN STATE_WARM
    ELSE IF c.E > E_TENDER THEN STATE_TENDER
    ELSE IF c.E > E_GUARDED THEN STATE_GUARDED
    ELSE STATE_PROTECTING

(***************************************************************************)
(* class CloudClient                                                       *)
(***************************************************************************)
API_BACKOFF_BASE_MS == 5000

API_BACKOFF_MAX_MS == 60000

\* CloudClient::CloudClient(): config(nullptr), initialized(false), the
\* status zeroed, then token_valid = billing_ok = true
NewCloud ==
    [initialized |-> FALSE, configured |-> FALSE,
     status |-> [connected |-> FALSE, token_valid |-> TRUE,
                 billing_ok |-> TRUE, consecutive_failures |-> 0,
                 last_success |-> 0, last_attempt |-> 0, backoff_ms |-> 0]]

\* CloudClient::init(cfg); cfgConfigured is cfg->configured
CloudInit(c, cfgConfigured) ==
    [c EXCEPT !.configured = cfgConfigured, !.initialized = cfgConfigured]

\* the loop of applyBackoff: for (i = 1; i < failures && i < 5; i++) base *= 2
RECURSIVE BackoffLoop(_, _, _)
BackoffLoop(base, i, failures) ==
    IF i < failures /\ i < 5 THEN BackoffLoop(base * 2, i + 1, failures)
    ELSE base

\* applyBackoff with the loop started at i = 0: one doubling too many
applyBackoffFromZero(st) ==
    [st EXCEPT !.backoff_ms =
        Min(BackoffLoop(API_BACKOFF_BASE_MS, 0, st.consecutive_failures),
            API_BACKOFF_MAX_MS)]

\* applyBackoff without the ceiling min(base, API_BACKOFF_MAX_MS)
applyBackoffNoCeiling(st) ==
    [st EXCEPT !.backoff_ms =
        BackoffLoop(API_BACKOFF_BASE_MS, 1, st.consecutive_failures)]

\* CloudClient::applyBackoff
applyBackoff(st) ==
    [st EXCEPT !.backoff_ms =
        Min(BackoffLoop(API_BACKOFF_BASE_MS, 1, st.consecutive_failures),
            API_BACKOFF_MAX_MS)]

\* handleResponseCode with a 200 also setting billing_ok again
handleResponseCodeClearingLimit(st, code, t) ==
    IF code = 200
    THEN [st EXCEPT !.connected = TRUE, !.consecutive_failures = 0,
                    !.last_success = t, !.backoff_ms = 0,
                    !.billing_ok = TRUE]
    ELSE IF code = 401 THEN [st EXCEPT !.token_valid = FALSE]
    ELSE IF code = 402 THEN [st EXCEPT !.billing_ok = FALSE]
    ELSE IF code >= 500
    THEN applyBackoff([st EXCEPT !.consecutive_failures = @ + 1])
    ELSE IF code < 0
    THEN applyBackoff([st EXCEPT !.connected = FALSE,
                                 !.consecutive_failures = @ + 1])
    ELSE st

\* CloudClient::handleResponseCode
handleResponseCode(st, code, t) ==
    IF code = 200
    THEN [st EXCEPT !.connected = TRUE, !.consecutive_failures = 0,
                    !.last_success = t, !.backoff_ms = 0]
    ELSE IF code = 401 THEN [st EXCEPT !.token_valid = FALSE]
    ELSE IF code = 402 THEN [st EXCEPT !.billing_ok = FALSE]
    ELSE IF code >= 500
    THEN applyBackoff([st EXCEPT !.consecutive_failures = @ + 1])
    ELSE IF code < 0
    THEN applyBackoff([st EXCEPT !.connected = FALSE,
                                 !.consecutive_failures = @ + 1])
    ELSE st

\* shouldAttempt without the token_valid test
shouldAttemptIgnoringToken(c, t) ==
    IF ~c.initialized \/ ~c.configured THEN FALSE
    ELSE IF c.status.backoff_ms > 0
            /\ t - c.status.last_attempt < c.status.backoff_ms THEN FALSE
    ELSE TRUE

\* shouldAttempt without the backoff window
shouldAttemptIgnoringBackoff(c, t) ==
    IF ~c.initialized \/ ~c.configured THEN FALSE
    ELSE IF ~c.status.token_valid THEN FALSE
    ELSE TRUE

\* shouldAttempt giving up for good at the fifth consecutive failure
shouldAttemptGivingUp(c, t) ==
    IF ~c.initialized \/ ~c.configured THEN FALSE
    ELSE IF ~c.status.token_valid THEN FALSE
    ELSE IF c.status.consecutive_failures >= 5 THEN FALSE
    ELSE IF c.status.backoff_ms > 0
            /\ t - c.status.last_attempt < c.status.backoff_ms THEN FALSE
    ELSE TRUE

\* CloudClient::shouldAttempt
shouldAttempt(c, t) ==
    IF ~c.initialized \/ ~c.configured THEN FALSE
    ELSE IF ~c.status.token_valid THEN FALSE
    ELSE IF c.status.backoff_ms > 0
            /\ t - c.status.last_attempt < c.status.backoff_ms THEN FALSE
    ELSE TRUE

\* a call that returns before any request is made
Refused(c) == [cloud |-> c, issued |-> FALSE, ret |-> FALSE]

\* the request of an operation that passed its gate: last_attempt = millis(),
\* the HTTP exchange answers code, handleResponseCode, return code == 200
Request(c, code, t) ==
    [cloud |-> [c EXCEPT !.status =
                   handleResponseCode([c.status EXCEPT !.last_attempt = t],
                                      code, t)],
     issued |-> TRUE, ret |-> (code = 200)]

\* CloudClient::fetchStatus -> [cloud, issued, ret]
fetchStatus(c, code, t) ==
    IF ~shouldAttempt(c, t) THEN Refused(c) ELSE Request(c, code, t)

\* chat without the billing_ok test
chatIgnoringBilling(c, code, t) ==
    IF ~shouldAttempt(c, t) THEN Refused(c) ELSE Request(c, code, t)

\* CloudClient::chat
chat(c, code, t) ==
    IF ~shouldAttempt(c, t) THEN Refused(c)
    ELSE IF ~c.status.billing_ok THEN Refused(c)
    ELSE Request(c, code, t)

\* care with last_attempt = millis() ahead of the gate
careStampingFirst(c, code, t) ==
    IF ~shouldAttempt(c, t)
    THEN Refused([c EXCEPT !.status.last_attempt = t])
    ELSE Request(c, code, t)

\* CloudClient::care
care(c, code, t) ==
    IF ~shouldAttempt(c, t) THEN Refused(c) ELSE Request(c, code, t)

\* CloudClient::sync
sync(c, code, t) ==
    IF ~shouldAttempt(c, t) THEN Refused(c) ELSE Request(c, code, t)

\* CloudClient::fetchAgents
fetchAgents(c, code, t) ==
    IF ~shouldAttempt(c, t) THEN Refused(c) ELSE Request(c, code, t)

(***************************************************************************)
(* class OfflineMode (offline.h) and the connection state of main.cpp      *)
(***************************************************************************)
\* OfflineMode::OfflineMode
NewOffline == [isOffline |-> FALSE, consecutiveFailures |-> 0]

\* OfflineMode::setOffline
setOffline(o, offline) ==
    [isOffline |-> offline,
     consecutiveFailures |-> IF ~offline /\ o.isOffline
                             THEN 0 ELSE o.consecutiveFailures]

\* connectionFailed raising the flag at the first failure
connectionFailedAtFirst(o) ==
    setOffline([o EXCEPT !.consecutiveFailures = @ + 1], TRUE)

\* OfflineMode::connectionFailed
connectionFailed(o) ==
    LET o1 == [o EXCEPT !.consecutiveFailures = @ + 1]
    IN  IF o1.consecutiveFailures >= 2 THEN setOffline(o1, TRUE) ELSE o1

\* OfflineMode::connectionSuccess
connectionSuccess(o) ==
    setOffline([o EXCEPT !.consecutiveFailures = 0], FALSE)

\* the globals of main.cpp: wifiConnected, offlineMode, lastAutoSync
NewMain == [wifiConnected |-> FALSE, offlineMode |-> NewOffline,
            lastAutoSync |-> 0]

(***************************************************************************)
(* SpecCloud: the CloudClient API under any order of calls and responses   *)
(***************************************************************************)
MaxCloudMinutes == 3

MaxFailures == 6

\* the HTTP codes a request can end with: success, auth rejected, quota
\* exceeded, an unexpected status, a server error, a transport failure
Codes == {200, 204, 401, 402, 404, 500, -1}

CloudSteps == {4 * API_BACKOFF_BASE_MS, API_BACKOFF_MAX_MS}

AllFound == [eeprom_found |-> TRUE, littlefs_available |-> TRUE]

AllOk == [eepromAck |-> TRUE, fsOk |-> TRUE]

EmptyStore == [eeprom |-> BlankEeprom, file |-> AbsentFile]

\* obs after a cloud call: the operation, whether it made its request, the
\* code that request ended with (0 without a request), what it returned;
\* seq alternates with every call, so that no call is a stuttering step
CloudObs(name, r, code) ==
    [op |-> name, issued |-> r.issued,
     code |-> IF r.issued THEN code ELSE 0,
     ret |-> r.ret, seq |-> 1 - obs.seq]

InitCloud ==
    /\ now = 0
    /\ variant = "Soul"
    /\ soul = NewSoul(0)
    /\ core = NewCore
    /\ hw = AllFound
    /\ env = AllOk
    /\ store = EmptyStore
    /\ cloud = NewCloud
    /\ main = NewMain
    /\ obs = [op |-> "none", issued |-> FALSE, code |-> 0, ret |-> FALSE,
              seq |-> 0]
    /\ calls = 0
    /\ phase = "run"

notCloud == <<variant, soul, core, hw, env, store, main, calls, phase>>

\* the responses to draw: a call that makes no request sees none, and one
\* draw stands for it
CodesFor(issues) == IF issues THEN Codes ELSE {200}

\* a response that counts as a failure is drawn only below the cap
CodeAllowed(code) ==
    (code >= 500 \/ code < 0) =>
        cloud.status.consecutive_failures < MaxFailures

CloudCall(name, r, code) ==
    /\ cloud' = r.cloud
    /\ obs' = CloudObs(name, r, code)
    /\ UNCHANGED <<now, notCloud>>

CInit ==
    \E cfg \in BOOLEAN :
        /\ cloud' = CloudInit(cloud, cfg)
        /\ obs' = [op |-> "init", issued |-> FALSE, code |-> 0,
                   ret |-> FALSE, seq |-> 1 - obs.seq]
        /\ UNCHANGED <<now, notCloud>>

CFetchStatus ==
    \E code \in CodesFor(fetchStatus(cloud, 200, now).issued) :
        /\ CodeAllowed(code)
        /\ CloudCall("fetchStatus", fetchStatus(cloud, code, now), code)

CChat ==
    \E code \in CodesFor(chat(cloud, 200, now).issued) :
        /\ CodeAllowed(code)
        /\ CloudCall("chat", chat(cloud, code, now), code)

CCare ==
    \E code \in CodesFor(care(cloud, 200, now).issued) :
        /\ CodeAllowed(code)
        /\ CloudCall("care", care(cloud, code, now), code)

CSync ==
    \E code \in CodesFor(sync(cloud, 200, now).issued) :
        /\ CodeAllowed(code)
        /\ CloudCall("sync", sync(cloud, code, now), code)

CFetchAgents ==
    \E code \in CodesFor(fetchAgents(cloud, 200, now).issued) :
        /\ CodeAllowed(code)
        /\ CloudCall("fetchAgents", fetchAgents(cloud, code, now), code)

CTick ==
    \E d \in CloudSteps :
        /\ now + d <= MaxCloudMinutes * MS_PER_MINUTE
        /\ now' = now + d
        /\ UNCHANGED <<cloud, obs, notCloud>>

NextCloud ==
    \/ CInit
    \/ CFetchStatus
    \/ CChat
    \/ CCare
    \/ CSync
    \/ CFetchAgents
    \/ CTick

SpecCloud == InitCloud /\ [][NextCloud]_vars

(***************************************************************************)
(* Properties of the cloud client                                          *)
(***************************************************************************)
\* a step that is a call of the client (every call flips obs.seq)
IsCall == obs'.seq # obs.seq

\* the three conditions of the gate, read from the client's fields
GateOpen ==
    /\ cloud.initialized
    /\ cloud.configured
    /\ cloud.status.token_valid
    /\ now - cloud.status.last_attempt >= cloud.status.backoff_ms

CloudOps == {"fetchStatus", "chat", "care", "sync", "fetchAgents"}

\* C3: once a 401 has cleared token_valid, no later step sets it again (init
\* included) and no later call of any operation issues a request, however
\* much time has passed.
C3_RevokedTokenNeverRetried ==
    [][~cloud.status.token_valid =>
          /\ ~cloud'.status.token_valid
          /\ (IsCall => ~obs'.issued)]_vars

\* C3 witness: the token is revoked, the client is configured, a full
\* maximum backoff has passed since the last request, and a sync was refused.
C3_Witness ==
    /\ ~cloud.status.token_valid
    /\ cloud.initialized /\ cloud.configured
    /\ now - cloud.status.last_attempt >= API_BACKOFF_MAX_MS
    /\ obs.op = "sync" /\ ~obs.issued /\ ~obs.ret

\* C4: with billing_ok false, a chat call issues no request and returns
\* false; a care or sync call whose gate is open still issues its request and
\* returns true exactly when the response is 200.
C4_BillingSuspendsChatOnly ==
    [][(IsCall /\ ~cloud.status.billing_ok) =>
          /\ (obs'.op = "chat" => (~obs'.issued /\ ~obs'.ret))
          /\ ((obs'.op \in {"care", "sync"} /\ GateOpen) =>
                 (obs'.issued /\ (obs'.ret <=> obs'.code = 200)))]_vars

\* C4 witness: after a 402, a care call got its request through and
\* returned true.
C4_Witness ==
    /\ ~cloud.status.billing_ok
    /\ obs.op = "care" /\ obs.issued /\ obs.code = 200 /\ obs.ret

\* C5: after the n-th consecutive failure backoff_ms is
\* min(5000 * 2^(n-1), 60000), that is 5000, 10000, 20000, 40000, 60000,
\* 60000, ...; backoff_ms never exceeds 60000.
C5_BackoffSequence ==
    LET n == cloud.status.consecutive_failures
        b == cloud.status.backoff_ms
    IN  /\ b <= 60000
        /\ n >= 1 => b = Min(5000 * Pow2(n - 1), 60000)
        /\ n = 1 => b = 5000
        /\ n = 2 => b = 10000
        /\ n = 3 => b = 20000
        /\ n = 4 => b = 40000
        /\ n >= 5 => b = 60000

\* C5 witness: the sixth consecutive failure, the second one at the cap.
C5_Witness ==
    /\ cloud.status.consecutive_failures = 6
    /\ cloud.status.backoff_ms = 60000
    /\ obs.issued /\ obs.code \in {500, -1}

\* C10: a call issues a request only when, at that moment, the client is
\* initialized and configured, token_valid holds, and at least backoff_ms
\* milliseconds have passed since last_attempt.
C10_RequestsOnlyThroughGate ==
    [][(IsCall /\ obs'.issued) => GateOpen]_vars

\* C10 witness: a request that went out after a backoff window had to be
\* waited for (a second failure in a row).
C10_Witness ==
    /\ obs.op \in CloudOps /\ obs.issued
    /\ cloud.status.consecutive_failures >= 2

\* a request came back with a server error or a transport failure
FailureCode(code) == code >= 500 \/ code < 0

\* C11: a call whose request ends in a 5xx or in a transport failure leaves
\* consecutive_failures one higher, backoff_ms recomputed from it, and
\* connected false.
C11_FailureClearsConnected ==
    [][(IsCall /\ obs'.issued /\ FailureCode(obs'.code)) =>
          /\ cloud'.status.consecutive_failures
                 = cloud.status.consecutive_failures + 1
          /\ cloud'.status.backoff_ms = applyBackoff(cloud'.status).backoff_ms
          /\ ~cloud'.status.connected]_vars

\* C12: a call whose request ends in any 2xx leaves connected true,
\* consecutive_failures 0, backoff_ms 0 and last_success at the current
\* time, so that the gate is open for the next call.
C12_SuccessResetsStatus ==
    [][(IsCall /\ obs'.issued /\ obs'.code >= 200 /\ obs'.code < 300) =>
          /\ cloud'.status.connected
          /\ cloud'.status.consecutive_failures = 0
          /\ cloud'.status.backoff_ms = 0
          /\ cloud'.status.last_success = now
          /\ shouldAttempt(cloud', now')]_vars

\* the limit on the doublings in applyBackoff: i runs from 1 while i < 5
BackoffCap == 4

\* C13 as stated: a failure that brings consecutive_failures to f leaves
\* backoff_ms = min(base * 2^min(f, cap), backoffMax).
C13_BackoffFormulaAsStated ==
    [][(IsCall /\ obs'.issued /\ FailureCode(obs'.code)) =>
          cloud'.status.backoff_ms
              = Min(API_BACKOFF_BASE_MS
                        * Pow2(Min(cloud'.status.consecutive_failures,
                                   BackoffCap)),
                    API_BACKOFF_MAX_MS)]_vars

\* C13: a failure that brings consecutive_failures to f leaves
\* backoff_ms = min(base * 2^min(f - 1, cap), backoffMax): the first failure
\* waits base, and each further one doubles it, cap times at most.
C13_BackoffFormula ==
    [][(IsCall /\ obs'.issued /\ FailureCode(obs'.code)) =>
          cloud'.status.backoff_ms
              = Min(API_BACKOFF_BASE_MS
                        * Pow2(Min(cloud'.status.consecutive_failures - 1,
                                   BackoffCap)),
                    API_BACKOFF_MAX_MS)]_vars

\* C13 witness: the fifth consecutive failure, the first at which the cap on
\* the doublings and the ceiling both bind.
C13_Witness ==
    /\ obs.issued /\ FailureCode(obs.code)
    /\ cloud.status.consecutive_failures = BackoffCap + 1
    /\ cloud.status.backoff_ms = API_BACKOFF_MAX_MS

\* C29: an operation that the gate refuses (shouldAttempt() false, or chat
\* with billing_ok false) makes no request, returns false and leaves every
\* field of the status as it was, last_attempt, consecutive_failures and
\* backoff_ms included.
C29_RefusedCallLeavesStatus ==
    [][(/\ IsCall
        /\ obs'.op \in CloudOps
        /\ \/ ~shouldAttempt(cloud, now)
           \/ obs'.op = "chat" /\ ~cloud.status.billing_ok) =>
          /\ cloud'.status = cloud.status
          /\ ~obs'.issued /\ ~obs'.ret]_vars

\* C29 witness: a care call was refused inside a 40 s backoff window, 20 s
\* after the request that opened it, and last_attempt is still that
\* request's time.
C29_Witness ==
    /\ obs.op = "care" /\ ~obs.issued
    /\ cloud.initialized /\ cloud.status.token_valid
    /\ cloud.status.consecutive_failures = 4
    /\ cloud.status.backoff_ms = 8 * API_BACKOFF_BASE_MS
    /\ now - cloud.status.last_attempt = 4 * API_BACKOFF_BASE_MS

\* C30: billing_ok starts true, goes false only by a 402, and once false
\* stays false whatever is answered afterwards (a 200 to fetchStatus, care
\* or sync included), so that no chat request goes out any more; a 401 or a
\* 402 leaves connected, consecutive_failures and backoff_ms as they were.
C30_BillingStaysSuspended ==
    /\ cloud.status.billing_ok
    /\ [][/\ ~cloud.status.billing_ok =>
                /\ ~cloud'.status.billing_ok
                /\ (IsCall /\ obs'.op = "chat") => ~obs'.issued
          /\ (cloud.status.billing_ok /\ ~cloud'.status.billing_ok) =>
                (IsCall /\ obs'.issued /\ obs'.code = 402)
          /\ (IsCall /\ obs'.issued /\ obs'.code \in {401, 402}) =>
                /\ cloud'.status.connected = cloud.status.connected
                /\ cloud'.status.consecutive_failures
                       = cloud.status.consecutive_failures
                /\ cloud'.status.backoff_ms = cloud.status.backoff_ms]_vars

\* C30 witness: after the 402 a sync was answered 200, the client is
\* connected again, and billing_ok is still false.
C30_Witness ==
    /\ ~cloud.status.billing_ok
    /\ obs.op = "sync" /\ obs.issued /\ obs.code = 200 /\ obs.ret
    /\ cloud.status.connected
    /\ cloud.status.last_success > 0

(***************************************************************************)
(* SpecRetry: the cloud client under a clock that keeps advancing          *)
(***************************************************************************)
\* the length of one run; a response that can leave a window behind it
\* (any but a 200: each request sets last_attempt, and only a 200 clears
\* backoff_ms) is drawn only while the run still has the longest window
\* ahead of it, and a failure only below the cap
MaxRetryMinutes == 3

RetrySteps == {4 * API_BACKOFF_BASE_MS, API_BACKOFF_MAX_MS}

FailureAllowed(code) ==
    /\ FailureCode(code) => cloud.status.consecutive_failures < MaxFailures
    /\ code # 200 =>
           now + API_BACKOFF_MAX_MS <= MaxRetryMinutes * MS_PER_MINUTE

RFetchStatus ==
    \E code \in CodesFor(fetchStatus(cloud, 200, now).issued) :
        /\ FailureAllowed(code)
        /\ CloudCall("fetchStatus", fetchStatus(cloud, code, now), code)

RChat ==
    \E code \in CodesFor(chat(cloud, 200, now).issued) :
        /\ FailureAllowed(code)
        /\ CloudCall("chat", chat(cloud, code, now), code)

RCare ==
    \E code \in CodesFor(care(cloud, 200, now).issued) :
        /\ FailureAllowed(code)
        /\ CloudCall("care", care(cloud, code, now), code)

RSync ==
    \E code \in CodesFor(sync(cloud, 200, now).issued) :
        /\ FailureAllowed(code)
        /\ CloudCall("sync", sync(cloud, code, now), code)

RFetchAgents ==
    \E code \in CodesFor(fetchAgents(cloud, 200, now).issued) :
        /\ FailureAllowed(code)
        /\ CloudCall("fetchAgents", fetchAgents(cloud, code, now), code)

\* millis() has advanced
RTick ==
    \E d \in RetrySteps :
        /\ now + d <= MaxRetryMinutes * MS_PER_MINUTE
        /\ now' = now + d
        /\ UNCHANGED <<cloud, obs, notCloud>>

NextRetry ==
    \/ CInit
    \/ RFetchStatus
    \/ RChat
    \/ RCare
    \/ RSync
    \/ RFetchAgents
    \/ RTick

\* the hardware timer behind millis() never stops: the clock advances as
\* long as the run lasts
SpecRetry == InitCloud /\ [][NextRetry]_vars /\ WF_vars(RTick)

\* the client is configured, its token valid, and the gate is shut
RetryBlocked ==
    /\ cloud.initialized /\ cloud.configured /\ cloud.status.token_valid
    /\ ~shouldAttempt(cloud, now)

\* C24: while the client is configured and its token valid, the gate is
\* open whenever backoff_ms (at most 60000) has passed since last_attempt,
\* and a gate shut by failures opens again as the clock advances (unless the
\* client is unconfigured meanwhile): no run of failures shuts it for good.
C24_BackoffEndsEventually ==
    /\ []((cloud.initialized /\ cloud.configured /\ cloud.status.token_valid
             /\ now - cloud.status.last_attempt >= cloud.status.backoff_ms)
            => shouldAttempt(cloud, now))
    /\ [](cloud.status.backoff_ms <= API_BACKOFF_MAX_MS)
    /\ RetryBlocked ~> (shouldAttempt(cloud, now) \/ ~cloud.configured)

\* C24 witness: five failures in a row put the window at its maximum, the
\* clock has passed it, and the gate is open again.
C24_Witness ==
    /\ cloud.status.consecutive_failures >= 5
    /\ cloud.status.backoff_ms = API_BACKOFF_MAX_MS
    /\ now - cloud.status.last_attempt >= API_BACKOFF_MAX_MS
    /\ shouldAttempt(cloud, now)

(***************************************************************************)
(* SpecEngine: the engine of either build, from the factory state, under   *)
(* any order of update / applyCare / applyDamage / applyNeglect            *)
(***************************************************************************)
\* the number of steps (calls and clock advances) of one engine run
MaxEngineSteps == 4

\* care: the poke / fallback and love intensities, a large cloud value
CareInputs == {Scale \div 2, (3 * Scale) \div 2, 50 * Scale}

\* (care, damage) handed to update directly
UpdateInputs == {<<0, 0>>, <<(3 * Scale) \div 2, 0>>,
                 <<(3 * Scale) \div 2, Scale \div 2>>,
                 <<Scale \div 2, 2 * Scale>>}

DamageInputs == {Scale \div 2, 50 * Scale}

\* idle minutes handed to applyNeglect
NeglectInputs == {600 * Scale, 12000 * Scale}

\* dt_minutes handed to AffectiveCore::update: elapsed time (-1), none, one
\* minute, more than 1 / FLOOR_RATE minutes
DtInputs == {-Scale, 0, Scale, 12000 * Scale}

\* how far millis() moves between calls: a second, a bit over the save
\* interval, exactly the 60 minutes Soul::update accepts, and 61 minutes
EngineSteps == {1000, SAVE_INTERVAL_MS + 1000, 60 * MS_PER_MINUTE,
                61 * MS_PER_MINUTE}

EngineObs(name, accepted, saved) ==
    [op |-> name, accepted |-> accepted, saved |-> saved]

InitEngine ==
    /\ now = 0
    /\ variant \in {"Soul", "AffectiveCore"}
    /\ soul = NewSoul(0)
    /\ core = NewCore
    /\ hw \in {AllFound, [eeprom_found |-> FALSE, littlefs_available |-> TRUE]}
    /\ env = AllOk
    /\ store = EmptyStore
    /\ cloud = NewCloud
    /\ main = NewMain
    /\ obs = EngineObs("none", FALSE, FALSE)
    /\ calls = 0
    /\ phase = "run"

notEngine == <<variant, hw, env, cloud, main, phase>>

SoulCall(name, r) ==
    /\ variant = "Soul"
    /\ calls < MaxEngineSteps
    /\ soul' = r.soul
    /\ store' = r.store
    /\ obs' = EngineObs(name, r.accepted, r.saved)
    /\ calls' = calls + 1
    /\ UNCHANGED <<now, core, notEngine>>

CoreCall(name, c, accepted) ==
    /\ variant = "AffectiveCore"
    /\ calls < MaxEngineSteps
    /\ core' = c
    /\ obs' = EngineObs(name, accepted, FALSE)
    /\ calls' = calls + 1
    /\ UNCHANGED <<now, soul, store, notEngine>>

ESoulUpdate ==
    \E cd \in UpdateInputs :
        SoulCall("update",
                 SoulUpdate(soul, store, hw, env, cd[1], cd[2], now))

ESoulApplyCare ==
    \E c \in CareInputs :
        SoulCall("applyCare", SoulApplyCare(soul, store, hw, env, c, now))

ESoulApplyDamage ==
    \E d \in DamageInputs :
        SoulCall("applyDamage", SoulApplyDamage(soul, store, hw, env, d, now))

ESoulApplyNeglect ==
    \E m \in NeglectInputs :
        SoulCall("applyNeglect", SoulApplyNeglect(soul, store, hw, env, m, now))

\* whether AffectiveCore::update with this dt_minutes passes its dt test
CoreAccepts(dt_minutes) ==
    IF dt_minutes < 0 THEN MinutesBetween(core.lastUpdate, now) > 0
    ELSE dt_minutes > 0

ECoreUpdate ==
    \E cd \in UpdateInputs, dt \in DtInputs :
        CoreCall("update", CoreUpdate(core, cd[1], cd[2], dt, now),
                 CoreAccepts(dt))

ECoreApplyCare ==
    \E c \in CareInputs :
        CoreCall("applyCare", CoreApplyCare(core, c, now), TRUE)

ECoreApplyDamage ==
    \E d \in DamageInputs :
        CoreCall("applyDamage", CoreApplyDamage(core, d, now), TRUE)

ECoreApplyNeglect ==
    \E m \in NeglectInputs :
        CoreCall("applyNeglect", CoreApplyNeglect(core, m, now), TRUE)

ETick ==
    \E d \in EngineSteps :
        /\ calls < MaxEngineSteps
        /\ now' = now + d
        /\ calls' = calls + 1
        /\ UNCHANGED <<soul, core, store, obs, notEngine>>

NextEngine ==
    \/ ESoulUpdate
    \/ ESoulApplyCare
    \/ ESoulApplyDamage
    \/ ESoulApplyNeglect
    \/ ECoreUpdate
    \/ ECoreApplyCare
    \/ ECoreApplyDamage
    \/ ECoreApplyNeglect
    \/ ETick

SpecEngine == InitEngine /\ [][NextEngine]_vars

(***************************************************************************)
(* Properties of the engine                                                *)
(***************************************************************************)
\* C1: after every call, from the factory state, E_floor <= E <= MAX_E
\* (100), in either engine; a net-damage update leaves E at E_floor, never
\* below it.
C1_EnergyWithinBounds ==
    /\ soul.data.E_floor <= soul.data.E
    /\ soul.data.E <= 100 * Scale
    /\ core.E_floor <= core.E
    /\ core.E <= 100 * Scale

\* C1 witness: applyDamage was accepted from E = E_floor = 1.0 and E rests on
\* the floor.
C1_Witness ==
    /\ variant = "Soul"
    /\ obs.op = "applyDamage" /\ obs.accepted
    /\ soul.data.E_floor = Scale
    /\ soul.data.E = soul.data.E_floor

\* C2: no call lowers E_floor; a call raises it only when the new E is above
\* the old floor, and never past the new E.
C2_FloorNeverDecreases ==
    [][/\ soul'.data.E_floor >= soul.data.E_floor
       /\ (soul'.data.E_floor > soul.data.E_floor =>
              /\ soul'.data.E > soul.data.E_floor
              /\ soul'.data.E_floor <= soul'.data.E)
       /\ core'.E_floor >= core.E_floor
       /\ (core'.E_floor > core.E_floor =>
              /\ core'.E > core.E_floor
              /\ core'.E_floor <= core'.E)]_vars

\* C2 witness: an accepted call has raised the floor above its factory value,
\* and it is still below E.
C2_Witness ==
    /\ variant = "Soul"
    /\ obs.accepted
    /\ soul.data.E_floor > Scale
    /\ soul.data.E_floor < soul.data.E

\* Soul::update turns the elapsed time down
SoulRejects ==
    LET dt == MinutesBetween(soul.lastUpdate, now)
    IN  dt <= 0 \/ dt > 60 * Scale

\* the fields of SoulData a step has changed
SoulFieldsChanged ==
    {f \in DOMAIN soul.data : soul'.data[f] # soul.data[f]}

\* C19: an update whose elapsed time is rejected (dt <= 0 in either engine,
\* and dt > 60 minutes in Soul::update) leaves E, E_floor, E_peak, totalCare
\* and the personality scalars as they were and triggers no save; only the
\* last-update timestamp moves, to the time of the call (applyCare has
\* counted its interaction before it calls update).
C19_RejectedUpdateIsNoOp ==
    [][(calls' = calls + 1 /\ now' = now) =>
          /\ (variant = "Soul" /\ SoulRejects) =>
                 /\ ~obs'.accepted /\ ~obs'.saved
                 /\ SoulFieldsChanged \subseteq {"interactions"}
                 /\ soul'.lastUpdate = now
                 /\ soul'.lastSave = soul.lastSave
                 /\ soul'.dirty = soul.dirty
                 /\ store' = store
          /\ (variant = "AffectiveCore" /\ ~obs'.accepted) =>
                 /\ core' = [core EXCEPT !.lastUpdate = now]
                 /\ store' = store]_vars

\* C19 witness: applyCare came 61 minutes or more after the last update and
\* was turned down: the interaction is counted, E and totalCare are at their
\* factory values, lastUpdate is the time of the call.
C19_Witness ==
    /\ variant = "Soul"
    /\ obs.op = "applyCare" /\ ~obs.accepted
    /\ now >= 61 * MS_PER_MINUTE
    /\ soul.lastUpdate = now
    /\ soul.data.interactions = 1
    /\ soul.data.E = INITIAL_E /\ soul.data.totalCare = 0
    /\ soul.data.wisdom = FLOAT_ZERO

\* other values E_peak could hold
PeakAlternatives == {0, INITIAL_E, 7 * Scale, MAX_E}

\* the E and E_floor an update of this soul would produce are those it
\* would produce with any other E_peak
LawIgnoresPeak ==
    \A cd \in UpdateInputs, dt \in {Scale \div 2, 60 * Scale},
       p \in PeakAlternatives :
        LET a == SoulLoveStep(soul.data, cd[1], cd[2], dt)
            b == SoulLoveStep([soul.data EXCEPT !.E_peak = p],
                              cd[1], cd[2], dt)
        IN  a.E = b.E /\ a.E_floor = b.E_floor

\* C22: after every Soul::update call E_peak is the maximum of its previous
\* value and the new E; E_peak >= E in every state, E_peak never decreases,
\* and E_peak is never read by the growth law.
C22_PeakIsRunningMaximum ==
    [][variant = "Soul" =>
          /\ soul.data.E_peak >= soul.data.E
          /\ soul'.data.E_peak = Max(soul.data.E_peak, soul'.data.E)
          /\ soul'.data.E_peak >= soul.data.E_peak
          /\ soul'.data.E_peak >= soul'.data.E
          /\ LawIgnoresPeak]_vars

\* C22 witness: damage was accepted and has brought E below the peak that
\* earlier care had raised.
C22_Witness ==
    /\ variant = "Soul"
    /\ obs.op = "applyDamage" /\ obs.accepted
    /\ soul.data.E_peak > INITIAL_E
    /\ soul.data.E < soul.data.E_peak

(***************************************************************************)
(* SpecGrowth: AffectiveCore::update with net care, at a resolution of     *)
(* 10^-6; core.E and core.E_floor are in millionths here                   *)
(***************************************************************************)
\* the number of update calls of one run
MaxGrowthCalls == 3

\* E at the start: the factory value, values between, just below MAX_E
GrowthStarts ==
    {FineScale, (3 * FineScale) \div 2, 5 * FineScale, 12 * FineScale,
     60 * FineScale, 99 * FineScale, 100 * FineScale - 1}

\* (care, damage, dt): the reference call update(1.5, 0, 1), a poke over a
\* hundredth of a minute, care partly offset by damage over half a minute
GrowthInputs ==
    {<<(3 * FineScale) \div 2, 0, FineScale>>,
     <<FineScale \div 2, 0, FineScale \div 100>>,
     <<(3 * FineScale) \div 2, FineScale \div 2, FineScale \div 2>>}

\* obs in SpecGrowth: the inputs of the calls so far and E before the first
\* call and after each
InitGrowth ==
    /\ now = 0
    /\ variant = "AffectiveCore"
    /\ soul = NewSoul(0)
    /\ \E E \in GrowthStarts :
           /\ core = [NewCore EXCEPT !.E = E, !.E_floor = FineScale]
           /\ obs = [op |-> "none", inputs |-> <<>>, E |-> <<E>>]
    /\ hw = AllFound
    /\ env = AllOk
    /\ store = EmptyStore
    /\ cloud = NewCloud
    /\ main = NewMain
    /\ calls = 0
    /\ phase = "run"

notGrowth == <<now, variant, soul, hw, env, store, cloud, main, phase>>

GrowthCall(in, c) ==
    /\ calls < MaxGrowthCalls
    /\ core' = c
    /\ obs' = [op |-> "update", inputs |-> Append(obs.inputs, in),
               E |-> Append(obs.E, c.E)]
    /\ calls' = calls + 1
    /\ UNCHANGED notGrowth

GUpdate ==
    \E in \in GrowthInputs :
        GrowthCall(in, CoreLoveStepFine(core, in[1], in[2], in[3]))

NextGrowth == GUpdate

SpecGrowth == InitGrowth /\ [][NextGrowth]_vars

\* the reference run: from E = 1.0, floor = 1.0, update(1.5, 0, 1) each time
ReferenceRun(o) ==
    /\ o.E[1] = FineScale
    /\ \A i \in 1..Len(o.inputs) :
           o.inputs[i] = <<(3 * FineScale) \div 2, 0, FineScale>>

MaxStateCalls == 2

Thresholds ==
    {E_GUARDED, E_TENDER, E_WARM, E_FLOURISHING, E_RADIANT, E_TRANSCENDENT}

\* E: each threshold, the values next to it on either side, and the ends
StateInputs ==
    {0, -Scale, MAX_E, 20 * Scale}
        \cup UNION {{th - 1, th, th + 1} : th \in Thresholds}

\* what else the object holds
FloorInputs == {INITIAL_FLOOR, 3 * Scale}

InteractionInputs == {0, 7}

\* the soul loadFromLittleFS leaves from a /soul.json with these values
SoulHolding(E, fl, n) ==
    LET d == [NewSoul(0).data EXCEPT !.E = E, !.E_floor = fl,
                                     !.E_peak = Max(E, INITIAL_E),
                                     !.interactions = n]
    IN  loadFromLittleFS(NewSoul(0), [kind |-> "doc", doc |-> SoulDoc(d)],
                         0).soul

CoreHolding(E, fl, n) ==
    [NewCore EXCEPT !.E = E, !.E_floor = fl, !.interactions = n]

\* obs in SpecState: the states the calls returned, latest first
StateObs(name, st) == [op |-> name, states |-> <<st>> \o obs.states]

InitState ==
    /\ now = 0
    /\ variant \in {"Soul", "AffectiveCore"}
    /\ \E E \in StateInputs, fl \in FloorInputs, n \in InteractionInputs :
           /\ soul = SoulHolding(E, fl, n)
           /\ core = CoreHolding(E, fl, n)
    /\ hw = AllFound
    /\ env = AllOk
    /\ store = EmptyStore
    /\ cloud = NewCloud
    /\ main = NewMain
    /\ obs = [op |-> "none", states |-> <<>>]
    /\ calls = 0
    /\ phase = "run"

notState == <<now, soul, core, variant, hw, env, store, cloud, main, phase>>

GSoulGetState ==
    /\ variant = "Soul"
    /\ calls < MaxStateCalls
    /\ obs' = StateObs("getState", getState(soul))
    /\ calls' = calls + 1
    /\ UNCHANGED notState

GCoreGetState ==
    /\ variant = "AffectiveCore"
    /\ calls < MaxStateCalls
    /\ obs' = StateObs("getState", CoreGetState(core))
    /\ calls' = calls + 1
    /\ UNCHANGED notState

NextState ==
    \/ GSoulGetState
    \/ GCoreGetState

SpecState == InitState /\ [][NextState]_vars

\* E of the engine in use
EngineE == IF variant = "Soul" THEN soul.data.E ELSE core.E

\* the number of thresholds strictly below E
Bucket(E) == Cardinality({th \in Thresholds : E > th})

\* C20: getState depends on E alone and never decreases as E grows; its
\* thresholds 0.5, 1.0, 2.0, 5.0, 12.0, 30.0 are strict, so E = 0.5 is
\* PROTECTING, E = 1.0 is GUARDED and E = 30.0 is RADIANT; every E falls in
\* exactly one of the seven states, and two calls with the same E return
\* the same state.
C20_GetStateStepFunction ==
    /\ \A i \in 1..Len(obs.states) :
           /\ obs.states[i] \in STATE_PROTECTING..STATE_TRANSCENDENT
           /\ obs.states[i] = Bucket(EngineE)
           /\ obs.states[i] = obs.states[1]
    /\ obs.states # <<>> =>
           /\ EngineE = E_GUARDED => obs.states[1] = STATE_PROTECTING
           /\ EngineE = E_TENDER => obs.states[1] = STATE_GUARDED
           /\ EngineE = E_TRANSCENDENT => obs.states[1] = STATE_RADIANT
    /\ \A a, b \in StateInputs :
           a <= b =>
               /\ getState(SoulHolding(a, INITIAL_FLOOR, 0))
                      <= getState(SoulHolding(b, 3 * Scale, 7))
               /\ CoreGetState(CoreHolding(a, INITIAL_FLOOR, 0))
                      <= CoreGetState(CoreHolding(b, 3 * Scale, 7))

\* C20 witness: getState was called twice on a soul holding E = 0.5 and
\* answered PROTECTING both times.
C20_Witness ==
    /\ variant = "Soul"
    /\ soul.data.E = E_GUARDED
    /\ obs.states = <<STATE_PROTECTING, STATE_PROTECTING>>

(***************************************************************************)
(* SpecStore: the persistence chain over the life of one device: boots     *)
(* (setup() detects the hardware and calls load()), care and save() while  *)
(* it runs, power loss, a storage device that stops answering, a lost or   *)
(* truncated /soul.json, and one changed byte in the EEPROM record         *)
(***************************************************************************)
\* the number of steps of one history
MaxStoreSteps == 7

\* how far millis() moves in one step: a second, and a bit over the save
\* interval
StoreSteps == {1000, SAVE_INTERVAL_MS + 1000}

\* what a changed byte may read as: the next value, and every bit inverted
CorruptValues(old) == {(old + 1) % 256, 255 - old}

NoneFound == [eeprom_found |-> FALSE, littlefs_available |-> FALSE]

\* initHardware: scanI2C finds the EEPROM when a device answers in
\* 0x50..0x57; LittleFS.begin(true) mounts, formatting if it has to
initHardware(e) ==
    [eeprom_found |-> e.eepromAck, littlefs_available |-> e.fsOk]

\* obs in SpecStore: the last step (op, ret), what load() made of each tier
\* at the last boot, the EEPROM contents as save() last left them (written),
\* whether a byte has been changed since (flipped), and the SoulData that
\* save() last put into each tier (kept; empty before the first)
StoreObs(name, ret) ==
    [op |-> name, ret |-> ret, eeprom |-> obs.eeprom,
     littlefs |-> obs.littlefs, reset |-> obs.reset,
     written |-> obs.written, flipped |-> obs.flipped, kept |-> obs.kept]

InitStore ==
    /\ now = 0
    /\ variant = "Soul"
    /\ soul = NewSoul(0)
    /\ core = NewCore
    /\ hw = NoneFound
    /\ env = AllOk
    /\ store = EmptyStore
    /\ cloud = NewCloud
    /\ main = NewMain
    /\ obs = [op |-> "none", ret |-> FALSE, eeprom |-> "skipped",
              littlefs |-> "skipped", reset |-> FALSE,
              written |-> BlankEeprom, flipped |-> FALSE,
              kept |-> [eeprom |-> <<>>, littlefs |-> <<>>]]
    /\ calls = 0
    /\ phase = "off"

notStore == <<variant, core, cloud, main>>

StoreStep ==
    /\ calls < MaxStoreSteps
    /\ calls' = calls + 1

\* setup(): initHardware(), soul.load(), soul.updateFirmwareVersion()
SBoot ==
    /\ phase = "off"
    /\ StoreStep
    /\ LET h == initHardware(env)
           r == SoulLoad(soul, store, h, env, now)
       IN  /\ hw' = h
           /\ soul' = updateFirmwareVersion(r.soul)
           /\ obs' = [StoreObs("load", r.ret) EXCEPT
                         !.eeprom = r.eeprom, !.littlefs = r.littlefs,
                         !.reset = r.reset]
    /\ phase' = "run"
    /\ UNCHANGED <<now, env, store, notStore>>

\* the EEPROM contents as the last save() left them
WrittenAfter(st) ==
    IF st.eeprom # store.eeprom THEN st.eeprom ELSE obs.written

\* the SoulData each tier holds after a save() that left the soul s and
\* the storage st
KeptAfter(s, st) ==
    [eeprom   |-> IF st.eeprom # store.eeprom THEN <<s.data>>
                  ELSE obs.kept.eeprom,
     littlefs |-> IF st.file # store.file THEN <<s.data>>
                  ELSE obs.kept.littlefs]

\* a call that may save: r is what it returns, r[ret] its result
StoreCall(name, r, ret) ==
    /\ phase = "run" /\ ~obs.flipped
    /\ StoreStep
    /\ soul' = r.soul
    /\ store' = r.store
    /\ obs' = [StoreObs(name, r[ret]) EXCEPT
                  !.written = WrittenAfter(r.store),
                  !.kept = KeptAfter(r.soul, r.store)]
    /\ UNCHANGED <<now, hw, env, phase, notStore>>

\* soul.save() (main.cpp, after an agent is chosen and after a sync)
SSave == StoreCall("save", SoulSave(soul, store, hw, env, now), "ret")

\* soul.applyCare(1.5f) (main.cpp, the love button), with the save every
\* SAVE_INTERVAL_MS that Soul::update makes
SApplyCare ==
    StoreCall("applyCare",
              SoulApplyCare(soul, store, hw, env, (3 * Scale) \div 2, now),
              "saved")

STick ==
    \E d \in StoreSteps :
        /\ phase = "run" /\ ~obs.flipped
        /\ StoreStep
        /\ now' = now + d
        /\ obs' = StoreObs("tick", FALSE)
        /\ UNCHANGED <<soul, hw, env, store, phase, notStore>>

\* power is cut: the object in RAM is gone, millis() starts again
SPowerLoss ==
    /\ phase = "run"
    /\ StoreStep
    /\ phase' = "off"
    /\ now' = 0
    /\ soul' = NewSoul(0)
    /\ hw' = NoneFound
    /\ obs' = StoreObs("off", FALSE)
    /\ UNCHANGED <<env, store, notStore>>

\* the EEPROM stops or starts answering on the bus; the file system stops
\* or starts taking writes
SEnvFault ==
    \E e \in {[env EXCEPT !.eepromAck = ~env.eepromAck],
              [env EXCEPT !.fsOk = ~env.fsOk]} :
        /\ ~obs.flipped
        /\ StoreStep
        /\ env' = e
        /\ obs' = StoreObs("fault", FALSE)
        /\ UNCHANGED <<now, soul, hw, store, phase, notStore>>

\* /soul.json is lost (the volume was formatted) or cut short by a power
\* loss during a write
SFileLost ==
    \E f \in {AbsentFile, GarbageFile} :
        /\ phase = "off" /\ ~obs.flipped
        /\ f # store.file
        /\ StoreStep
        /\ store' = [store EXCEPT !.file = f]
        /\ obs' = StoreObs("filelost", FALSE)
        /\ UNCHANGED <<now, soul, hw, env, phase, notStore>>

\* one byte of the record save() wrote reads back as another value: once in
\* a history, while the device is off
SCorruptByte ==
    \E a \in RecordAddrs :
        \E v \in CorruptValues(store.eeprom[a + 1]) :
            /\ phase = "off" /\ ~obs.flipped
            /\ store.eeprom = obs.written
            /\ store.eeprom # BlankEeprom
            /\ StoreStep
            /\ store' = [store EXCEPT !.eeprom[a + 1] = v]
            /\ obs' = [StoreObs("corrupt", FALSE) EXCEPT !.flipped = TRUE]
            /\ UNCHANGED <<now, soul, hw, env, phase, notStore>>

NextStore ==
    \/ SBoot
    \/ SSave
    \/ SApplyCare
    \/ STick
    \/ SPowerLoss
    \/ SEnvFault
    \/ SFileLost
    \/ SCorruptByte

SpecStore == InitStore /\ [][NextStore]_vars

(***************************************************************************)
(* Properties of the persistence chain                                     *)
(***************************************************************************)
StoredMagic(mem) == FromLE4(Slice(mem, EEPROM_MAGIC_ADDR + 1, 4))

StoredVersion(mem) == mem[EEPROM_VERSION_ADDR + 1]

StoredStruct(mem) == Slice(mem, EEPROM_SOUL_ADDR + 1, SOUL_SIZE)

\* the checksum recomputed over the stored SoulData equals the stored one
StoredChecksumMatches(mem) ==
    ChecksumOfBytes(StoredStruct(mem))
        = FromLE4(Slice(StoredStruct(mem), SOUL_SIZE - CHECKSUM_SIZE + 1,
                        CHECKSUM_SIZE))

\* a complete record: magic, schema version and checksum as save() writes
\* them
RecordIntact(mem) ==
    /\ StoredMagic(mem) = EEPROM_MAGIC
    /\ StoredVersion(mem) = EEPROM_SCHEMA_VERSION
    /\ StoredChecksumMatches(mem)

\* the addresses of the record at which two EEPROM contents differ
ChangedAddrs(a, b) == {x \in RecordAddrs : a[x + 1] # b[x + 1]}

\* C6: when load() runs over an EEPROM record that save() wrote and in which
\* exactly one byte (of the magic, the schema version, the SoulData or its
\* checksum) has since changed, it rejects the record and goes on to the
\* LittleFS tier.
C6_SingleByteChangeRejected ==
    (/\ obs.op = "load"
     /\ hw.eeprom_found
     /\ RecordIntact(obs.written)
     /\ Cardinality(ChangedAddrs(obs.written, store.eeprom)) = 1)
    => (obs.eeprom = "rejected" /\ obs.littlefs # "skipped")

\* C7: load() accepts the EEPROM record only if the stored magic, the stored
\* schema version and the recomputed checksum all match.
C7_AcceptedOnlyIfAllThreeMatch ==
    (obs.op = "load" /\ obs.eeprom = "accepted")
    => (/\ StoredMagic(store.eeprom) = EEPROM_MAGIC
        /\ StoredVersion(store.eeprom) = EEPROM_SCHEMA_VERSION
        /\ StoredChecksumMatches(store.eeprom))

\* the snapshot of the soul is held by the EEPROM tier / the LittleFS tier
HeldByEeprom ==
    /\ StoredMagic(store.eeprom) = EEPROM_MAGIC
    /\ StoredStruct(store.eeprom) = StructBytes(soul.data)

HeldByLittleFS == store.file = [kind |-> "doc", doc |-> SoulDoc(soul.data)]

\* C8: save() returns true only if some tier stored the snapshot: right
\* after a save() that returned true, the EEPROM or /soul.json holds the
\* soul as it is in memory.
C8_SaveTrueOnlyIfStored ==
    (obs.op = "save" /\ obs.ret) => (HeldByEeprom \/ HeldByLittleFS)

\* what load() has to find in a tier to take the soul from it
PrimaryUsable ==
    /\ hw.eeprom_found /\ env.eepromAck
    /\ StoredMagic(store.eeprom) = EEPROM_MAGIC
    /\ StoredChecksumMatches(store.eeprom)

SecondaryUsable == hw.littlefs_available /\ store.file.kind = "doc"

FactoryState ==
    /\ soul.data.E = INITIAL_E
    /\ soul.data.E_floor = INITIAL_FLOOR
    /\ soul.data.E_peak = Scale
    /\ soul.data.interactions = 0
    /\ soul.data.totalCare = 0
    /\ soul.data.totalChats = 0
    /\ soul.data.totalSyncs = 0

\* C9: after load(), if neither tier had a usable record the soul is in the
\* factory state and the device runs; LittleFS was consulted only if the
\* EEPROM was absent or its record rejected; the reset happened only if both
\* tiers failed; and a usable EEPROM record is the one the soul was taken
\* from.
C9_FactoryStateWhenNoTier ==
    obs.op = "load" =>
        /\ phase = "run"
        /\ (~PrimaryUsable /\ ~SecondaryUsable) => (FactoryState /\ obs.reset)
        /\ obs.littlefs # "skipped" => ~PrimaryUsable
        /\ obs.reset => (~PrimaryUsable /\ ~SecondaryUsable)
        /\ PrimaryUsable =>
               /\ obs.eeprom = "accepted"
               /\ soul.data.E = FromLE4(Slice(StoredStruct(store.eeprom), 1, 4))
               /\ soul.data.interactions
                      = FromLE4(Slice(StoredStruct(store.eeprom), 13, 4))

\* C9 witness: load() found an EEPROM record with a changed byte and a
\* /soul.json cut short, rejected both and reset the soul.
C9_Witness ==
    /\ obs.op = "load" /\ obs.reset /\ obs.flipped
    /\ hw.eeprom_found /\ obs.eeprom = "rejected"
    /\ hw.littlefs_available /\ store.file.kind = "garbage"
    /\ obs.littlefs = "rejected"
    /\ FactoryState

\* the fields both tiers carry
RoundTripFields ==
    {"E", "E_floor", "E_peak", "interactions", "totalCare", "birthTime",
     "agentIndex", "curiosity", "playfulness", "wisdom"}

\* load() took its data from a tier whose bytes are as save() left them
LoadedFrom(tier) ==
    /\ obs.op = "load" /\ ~obs.flipped
    /\ obs[tier] = "accepted"
    /\ obs.kept[tier] # <<>>

RestoredFrom(tier, fields) ==
    LoadedFrom(tier) =>
        \A f \in fields : soul.data[f] = obs.kept[tier][1][f]

\* C18: with a storage tier available and no stored byte altered, save()
\* followed by load() restores E, E_floor, E_peak, interactions, totalCare,
\* birthTime, agentIndex, curiosity, playfulness and wisdom exactly as they
\* were at the save, on the EEPROM tier and on the LittleFS tier alike.
C18_RoundTripExact ==
    /\ RestoredFrom("eeprom", RoundTripFields)
    /\ RestoredFrom("littlefs", RoundTripFields)

(***************************************************************************)
(* SpecTorn: power is lost while saveToEEPROM is writing                   *)
(***************************************************************************)
\* the number of steps of one history
MaxTornSteps == 6

\* how far millis() moves between two presses of the love button: a second
\* and 1.062 s over the save interval (the second one an interval at which
\* two consecutive snapshots weigh the same up to the first tear point)
TornSteps == {SAVE_INTERVAL_MS + 1000, SAVE_INTERVAL_MS + 1062}

\* the I2C page writes of one saveToEEPROM: the magic, the version, and the
\* SoulData in chunks of 16 bytes
EEPROM_CHUNK == 16

SAVE_WRITES == 7

\* the EEPROM when power is lost with `done` of the page writes of a
\* saveToEEPROM completed, each chunk in place: old is the memory before the
\* save, new the memory the complete save leaves
TornEeprom(old, new, done) ==
    [a \in 1..Len(old) |->
        IF \/ done >= 1 /\ a - 1 >= EEPROM_MAGIC_ADDR
                        /\ a - 1 < EEPROM_MAGIC_ADDR + 4
           \/ done >= 2 /\ a - 1 = EEPROM_VERSION_ADDR
           \/ /\ a - 1 >= EEPROM_SOUL_ADDR
              /\ a - 1 < EEPROM_SOUL_ADDR + EEPROM_CHUNK * (done - 2)
        THEN new[a] ELSE old[a]]

\* obs in SpecTorn: the last step, what load() made of each tier at the last
\* boot, and the EEPROM contents before (old) and after (new) the last
\* save(), which are the same once a save() has completed
InitTorn ==
    /\ now = 0
    /\ variant = "Soul"
    /\ soul = NewSoul(0)
    /\ core = NewCore
    /\ hw = NoneFound
    /\ env = AllOk
    /\ store = EmptyStore
    /\ cloud = NewCloud
    /\ main = NewMain
    /\ obs = [op |-> "none", eeprom |-> "skipped", littlefs |-> "skipped",
              old |-> BlankEeprom, new |-> BlankEeprom]
    /\ calls = 0
    /\ phase = "off"

TornStep ==
    /\ calls < MaxTornSteps
    /\ calls' = calls + 1

\* setup(): initHardware(), soul.load(), soul.updateFirmwareVersion()
TBoot ==
    /\ phase = "off"
    /\ TornStep
    /\ LET h == initHardware(env)
           r == SoulLoad(soul, store, h, env, now)
       IN  /\ hw' = h
           /\ soul' = updateFirmwareVersion(r.soul)
           /\ obs' = [obs EXCEPT !.op = "load", !.eeprom = r.eeprom,
                                 !.littlefs = r.littlefs]
    /\ phase' = "run"
    /\ UNCHANGED <<now, env, store, notStore>>

\* applyCare has returned r, its save() (if it made one) complete
CareDone(r) ==
    /\ soul' = r.soul
    /\ store' = r.store
    /\ obs' = IF r.saved
              THEN [obs EXCEPT !.op = "applyCare", !.old = r.store.eeprom,
                               !.new = r.store.eeprom]
              ELSE [obs EXCEPT !.op = "applyCare"]
    /\ UNCHANGED <<now, hw, env, phase, notStore>>

\* soul.applyCare(1.5f), the love button
TApplyCare ==
    /\ phase = "run"
    /\ TornStep
    /\ CareDone(SoulApplyCare(soul, store, hw, env, (3 * Scale) \div 2, now))

\* power is lost in the save() of an applyCare that would have returned r,
\* `done` page writes into saveToEEPROM
CareCut(r, done) ==
    /\ r.saved
    /\ store' = [store EXCEPT
                    !.eeprom = TornEeprom(store.eeprom, r.store.eeprom, done)]
    /\ obs' = [obs EXCEPT !.op = "cut", !.old = store.eeprom,
                          !.new = r.store.eeprom]
    /\ soul' = NewSoul(0)
    /\ now' = 0
    /\ hw' = NoneFound
    /\ phase' = "off"
    /\ UNCHANGED <<env, notStore>>

\* soul.applyCare(1.5f) whose periodic save() is cut short by a power loss
TCareCut ==
    \E done \in 0..SAVE_WRITES :
        /\ phase = "run" /\ hw.eeprom_found
        /\ TornStep
        /\ CareCut(SoulApplyCare(soul, store, hw, env, (3 * Scale) \div 2,
                                 now),
                   done)

TTick ==
    \E d \in TornSteps :
        /\ phase = "run"
        /\ TornStep
        /\ now' = now + d
        /\ obs' = [obs EXCEPT !.op = "tick"]
        /\ UNCHANGED <<soul, hw, env, store, phase, notStore>>

NextTorn ==
    \/ TBoot
    \/ TApplyCare
    \/ TCareCut
    \/ TTick

SpecTorn == InitTorn /\ [][NextTorn]_vars

\* C26: after a power loss during save() to the EEPROM, the record the next
\* load() accepts is a complete snapshot, the one stored before that save
\* or the one that save was writing, never bytes of both.
C26_TornRecordNeverAccepted ==
    (obs.op = "load" /\ obs.eeprom = "accepted") =>
        \/ StoredStruct(store.eeprom) = StoredStruct(obs.old)
        \/ StoredStruct(store.eeprom) = StoredStruct(obs.new)

(***************************************************************************)
(* SpecTiers: the two storage tiers over several boots, each boot finding  *)
(* its own set of them; no stored byte is ever changed from outside       *)
(***************************************************************************)
\* the number of steps of one history
MaxTierSteps == 9

\* how far millis() moves between two presses: a second over the save
\* interval, and just under the hour past which update() ignores the call
TierSteps == {SAVE_INTERVAL_MS + 1000, 59 * MS_PER_MINUTE}

\* what a boot may find: scanI2C sees the EEPROM or not, LittleFS mounts or
\* not
Availabilities == [eepromAck : BOOLEAN, fsOk : BOOLEAN]

\* obs in SpecTiers: the last step, what load() made of each tier at the
\* last boot, and the SoulData of the last save() that stored one (last;
\* empty before the first)
InitTiers ==
    /\ now = 0
    /\ variant = "Soul"
    /\ soul = NewSoul(0)
    /\ core = NewCore
    /\ hw = NoneFound
    /\ env = AllOk
    /\ store = EmptyStore
    /\ cloud = NewCloud
    /\ main = NewMain
    /\ obs = [op |-> "none", ret |-> FALSE, eeprom |-> "skipped",
              littlefs |-> "skipped", last |-> <<>>]
    /\ calls = 0
    /\ phase = "off"

TierStep ==
    /\ calls < MaxTierSteps
    /\ calls' = calls + 1

\* setup() of a boot that finds the tiers e: initHardware(), soul.load(),
\* soul.updateFirmwareVersion()
VBoot ==
    \E e \in Availabilities :
        /\ phase = "off"
        /\ TierStep
        /\ env' = e
        /\ hw' = initHardware(e)
        /\ LET r == SoulLoad(soul, store, initHardware(e), e, now)
           IN  /\ soul' = updateFirmwareVersion(r.soul)
               /\ obs' = [obs EXCEPT !.op = "load", !.ret = r.ret,
                                     !.eeprom = r.eeprom,
                                     !.littlefs = r.littlefs]
        /\ phase' = "run"
        /\ UNCHANGED <<now, store, notStore>>

\* applyCare has returned r; the tiers answer as the boot found them, so a
\* save() changed the storage exactly when it took the snapshot
TierCall(r) ==
    /\ soul' = r.soul
    /\ store' = r.store
    /\ obs' = [obs EXCEPT !.op = "applyCare", !.ret = r.saved,
                          !.last = IF r.store # store THEN <<r.soul.data>>
                                   ELSE @]
    /\ UNCHANGED <<now, hw, env, phase, notStore>>

\* soul.applyCare(1.5f), the love button, with the periodic save()
VApplyCare ==
    /\ phase = "run"
    /\ TierStep
    /\ TierCall(SoulApplyCare(soul, store, hw, env, (3 * Scale) \div 2, now))

VTick ==
    \E d \in TierSteps :
        /\ phase = "run"
        /\ TierStep
        /\ now' = now + d
        /\ obs' = [obs EXCEPT !.op = "tick"]
        /\ UNCHANGED <<soul, hw, env, store, phase, notStore>>

\* power is cut between two operations
VPowerLoss ==
    /\ phase = "run"
    /\ TierStep
    /\ phase' = "off"
    /\ now' = 0
    /\ soul' = NewSoul(0)
    /\ hw' = NoneFound
    /\ obs' = [obs EXCEPT !.op = "off"]
    /\ UNCHANGED <<env, store, notStore>>

NextTiers ==
    \/ VBoot
    \/ VApplyCare
    \/ VTick
    \/ VPowerLoss

SpecTiers == InitTiers /\ [][NextTiers]_vars

\* what load() is compared on: the fields both tiers carry exactly
TierFields == {"E", "E_floor", "E_peak", "interactions", "totalCare"}

\* C27: a boot that finds both tiers restores the snapshot of the most
\* recent save() that succeeded, whichever tier took it, and so leaves
\* E_floor no lower than it was at that save.
C27_LoadRestoresLatestSave ==
    (obs.op = "load" /\ hw.eeprom_found /\ hw.littlefs_available
        /\ obs.last # <<>>) =>
        /\ \A f \in TierFields : soul.data[f] = obs.last[1][f]
        /\ soul.data.E_floor >= obs.last[1].E_floor

(***************************************************************************)
(* main.cpp: the handlers that tie the soul, the cloud client and the      *)
(* offline detector together                                               *)
(***************************************************************************)
\* Soul::recordChat
recordChat(s) ==
    [s EXCEPT !.data.totalChats = @ + 1, !.dirty = TRUE]

\* Soul::recordSync
recordSync(s, t) ==
    [s EXCEPT !.data.totalSyncs = @ + 1, !.data.lastSyncTime = t,
              !.dirty = TRUE]

\* the care chatWithCloud gives for an exchange answered locally: 0.5
\* without a connection or after a failed request, 0.3 when the quota is
\* known to be used up
CARE_OFFLINE == Scale \div 2

CARE_BILLING == (3 * Scale) \div 10

\* what comes out of a handler: the new objects, the branch taken (path),
\* the argument of its applyCare call (care, 0 without one), whether a
\* request went out, and the calls it made on offlineMode (ev)
Outcome(s, st, c, m, path, careArg, issued, ev) ==
    [soul |-> s, store |-> st, cloud |-> c, main |-> m, path |-> path,
     care |-> careArg, issued |-> issued, ev |-> ev]

OfflineFailed(m) ==
    [m EXCEPT !.offlineMode = connectionFailed(m.offlineMode)]

OfflineSuccess(m) ==
    [m EXCEPT !.offlineMode = connectionSuccess(m.offlineMode)]

\* the Outcome of a handler whose soul and store are those r holds (what
\* applyCare or save() returned)
OutcomeOf(r, c, m, path, careArg, issued, ev) ==
    Outcome(r.soul, r.store, c, m, path, careArg, issued, ev)

\* soul.recordChat() on what applyCare returned
ChatRecorded(r) == [r EXCEPT !.soul = recordChat(r.soul)]

\* chatWithCloud past cloud.chat(): ch is what chat() returned
ChatAnsweredNoRecord(s, st, h, e, m, ch, careValue, t) ==
    IF ch.ret
    THEN OutcomeOf(SoulApplyCare(s, st, h, e, careValue, t), ch.cloud,
                   OfflineSuccess(m), "remote", careValue, ch.issued,
                   <<"success">>)
    ELSE IF ~ch.cloud.status.billing_ok
    THEN Outcome(s, st, ch.cloud, m, "quota", 0, ch.issued, <<>>)
    ELSE OutcomeOf(SoulApplyCare(s, st, h, e, CARE_OFFLINE, t), ch.cloud,
                   OfflineFailed(m), "failed", CARE_OFFLINE, ch.issued,
                   <<"failed">>)

ChatAnswered(s, st, h, e, m, ch, careValue, t) ==
    IF ch.ret
    THEN OutcomeOf(ChatRecorded(SoulApplyCare(s, st, h, e, careValue, t)),
                   ch.cloud, OfflineSuccess(m), "remote", careValue,
                   ch.issued, <<"success">>)
    ELSE IF ~ch.cloud.status.billing_ok
    THEN Outcome(s, st, ch.cloud, m, "quota", 0, ch.issued, <<>>)
    ELSE OutcomeOf(SoulApplyCare(s, st, h, e, CARE_OFFLINE, t), ch.cloud,
                   OfflineFailed(m), "failed", CARE_OFFLINE, ch.issued,
                   <<"failed">>)

\* chatWithCloud with soul.recordChat() left out
chatWithCloudNoRecord(s, st, h, e, c, m, code, careValue, t) ==
    IF ~m.wifiConnected \/ ~c.initialized
    THEN OutcomeOf(SoulApplyCare(s, st, h, e, CARE_OFFLINE, t), c, m,
                   "nocloud", CARE_OFFLINE, FALSE, <<>>)
    ELSE IF ~c.status.token_valid
    THEN Outcome(s, st, c, m, "auth", 0, FALSE, <<>>)
    ELSE IF ~c.status.billing_ok
    THEN OutcomeOf(SoulApplyCare(s, st, h, e, CARE_BILLING, t), c, m,
                   "billing", CARE_BILLING, FALSE, <<>>)
    ELSE ChatAnsweredNoRecord(s, st, h, e, m, chat(c, code, t), careValue, t)

\* chatWithCloud; code is how the request ends if one goes out, careValue
\* what chat() leaves in its output parameter
chatWithCloud(s, st, h, e, c, m, code, careValue, t) ==
    IF ~m.wifiConnected \/ ~c.initialized
    THEN OutcomeOf(SoulApplyCare(s, st, h, e, CARE_OFFLINE, t), c, m,
                   "nocloud", CARE_OFFLINE, FALSE, <<>>)
    ELSE IF ~c.status.token_valid
    THEN Outcome(s, st, c, m, "auth", 0, FALSE, <<>>)
    ELSE IF ~c.status.billing_ok
    THEN OutcomeOf(SoulApplyCare(s, st, h, e, CARE_BILLING, t), c, m,
                   "billing", CARE_BILLING, FALSE, <<>>)
    ELSE ChatAnswered(s, st, h, e, m, chat(c, code, t), careValue, t)

\* handleButtons past soul.applyCare(intensity): cloud.care() when connected
CareSent(r, c, m, intensity, code, t) ==
    IF m.wifiConnected /\ c.initialized
    THEN LET k == care(c, code, t)
         IN  OutcomeOf(r, k.cloud, m, "care", intensity, k.issued, <<>>)
    ELSE OutcomeOf(r, c, m, "local", intensity, FALSE, <<>>)

\* handleButtons, button A / B released on the face screen:
\* soul.applyCare(intensity), then cloud.care() when connected
buttonCare(s, st, h, e, c, m, intensity, code, t) ==
    CareSent(SoulApplyCare(s, st, h, e, intensity, t), c, m, intensity,
             code, t)

\* syncWithCloud
syncWithCloud(s, st, h, e, c, m, code, t) ==
    IF ~m.wifiConnected THEN Outcome(s, st, c, m, "nowifi", 0, FALSE, <<>>)
    ELSE IF ~c.initialized
    THEN Outcome(s, st, c, m, "noconfig", 0, FALSE, <<>>)
    ELSE IF ~c.status.token_valid
    THEN Outcome(s, st, c, m, "auth", 0, FALSE, <<>>)
    ELSE LET k == sync(c, code, t)
         IN  IF k.ret
             THEN OutcomeOf(SoulSave(recordSync(s, t), st, h, e, t),
                            k.cloud, m, "synced", 0, k.issued, <<>>)
             ELSE Outcome(s, st, k.cloud, m, "failed", 0, k.issued, <<>>)

AUTO_SYNC_INTERVAL_MS == 1800000

\* checkAutoSync, once the interval has passed: the sync is counted whether
\* or not it succeeded
checkAutoSync(s, st, h, e, c, m, code, t) ==
    LET m1 == [m EXCEPT !.lastAutoSync = t]
    IN  IF m.wifiConnected /\ c.initialized /\ c.status.token_valid
        THEN LET k == sync(c, code, t)
             IN  Outcome(recordSync(s, t), st, k.cloud, m1, "autosync", 0,
                         k.issued, <<>>)
        ELSE Outcome(s, st, c, m1, "skipped", 0, FALSE, <<>>)

\* loop(), WiFi reconnection: connectMultiWiFi(), and cloud.fetchStatus()
\* when it connected (the build without a compiled-in network)
reconnectWiFi(s, st, h, e, c, m, wifiOk, code, t) ==
    IF wifiOk
    THEN LET m1 == OfflineSuccess([m EXCEPT !.wifiConnected = TRUE])
         IN  IF c.initialized /\ c.status.token_valid
             THEN LET k == fetchStatus(c, code, t)
                  IN  Outcome(s, st, k.cloud, m1, "connected", 0, k.issued,
                              <<"success">>)
             ELSE Outcome(s, st, c, m1, "connected", 0, FALSE,
                          <<"success">>)
    ELSE Outcome(s, st, c, OfflineFailed([m EXCEPT !.wifiConnected = FALSE]),
                 "nowifi", 0, FALSE, <<"failed">>)

(***************************************************************************)
(* SpecMain: the running firmware: setup(), then chats, button care,       *)
(* manual and periodic syncs and WiFi reconnections in any order, against  *)
(* a server that answers each request in any of the ways it can            *)
(***************************************************************************)
\* the number of steps of one history
MaxMainSteps == 5

\* how a request can end: success, token rejected, quota used up, server
\* error, transport failure
MainCodes == {200, 401, 402, 500, -1}

\* the body of a 200 answer to a chat: JSON with a care_value, or text
\* that does not parse
Replies == {[parsed |-> TRUE, care |-> Scale],
            [parsed |-> FALSE, care |-> 0]}

\* what the local float careValue of chatWithCloud can hold when chat()
\* did not assign it
StackFloats == {-Scale, 2 * Scale}

\* the values careValue can have after chat() returned true
CareValues(reply) == IF reply.parsed THEN {reply.care} ELSE StackFloats

MainSteps == {SAVE_INTERVAL_MS + 1000, AUTO_SYNC_INTERVAL_MS}

\* obs in SpecMain: the handler that ran, the branch it took, the argument
\* of its applyCare call, whether a request went out and how it ended, the
\* reply to a chat, and every call made on offlineMode so far (conn)
MainObs(name, r, code, reply) ==
    [op |-> name, path |-> r.path, care |-> r.care, issued |-> r.issued,
     code |-> IF r.issued THEN code ELSE 0,
     reply |-> IF r.path = "remote" THEN reply
               ELSE [parsed |-> FALSE, care |-> 0],
     conn |-> obs.conn \o r.ev, seq |-> 1 - obs.seq]

NoReply == [parsed |-> FALSE, care |-> 0]

InitMain ==
    /\ now = 0
    /\ variant = "Soul"
    /\ soul = NewSoul(0)
    /\ core = NewCore
    /\ hw = NoneFound
    /\ env = AllOk
    /\ store = EmptyStore
    /\ cloud = NewCloud
    /\ main = NewMain
    /\ obs = [op |-> "none", path |-> "none", care |-> 0, issued |-> FALSE,
              code |-> 0, reply |-> NoReply, conn |-> <<>>, seq |-> 0]
    /\ calls = 0
    /\ phase = "off"

notMain == <<variant, core, env>>

MainStep ==
    /\ calls < MaxMainSteps
    /\ calls' = calls + 1

\* a handler of the running firmware has run
MainCall(name, r, code, reply) ==
    /\ phase = "run"
    /\ MainStep
    /\ soul' = r.soul
    /\ store' = r.store
    /\ cloud' = r.cloud
    /\ main' = r.main
    /\ obs' = MainObs(name, r, code, reply)
    /\ UNCHANGED <<now, hw, phase, notMain>>

\* setup(): initHardware(), soul.load(), the WiFi connection, cloud.init()
\* when a configuration was found, and the first cloud.fetchStatus()
MSetup ==
    \E wifiOk \in BOOLEAN, configured \in BOOLEAN, code \in MainCodes :
        /\ phase = "off"
        /\ MainStep
        /\ LET h  == initHardware(env)
               ld == SoulLoad(soul, store, h, env, now)
               m1 == [main EXCEPT !.wifiConnected = wifiOk,
                                  !.lastAutoSync = now]
               m2 == IF wifiOk THEN OfflineSuccess(m1) ELSE m1
               c1 == IF configured THEN CloudInit(cloud, TRUE) ELSE cloud
               fs == fetchStatus(c1, code, now)
               probe == configured /\ wifiOk
           IN  /\ hw' = h
               /\ soul' = updateFirmwareVersion(ld.soul)
               /\ main' = m2
               /\ cloud' = IF probe THEN fs.cloud ELSE c1
               /\ obs' = MainObs("setup",
                                 Outcome(soul, store, cloud, main, "setup", 0,
                                         probe /\ fs.issued,
                                         IF wifiOk THEN <<"success">>
                                         ELSE <<>>),
                                 code, NoReply)
        /\ phase' = "run"
        /\ UNCHANGED <<now, store, notMain>>

\* loop(): a line arrived on the serial port
MChat ==
    \E code \in MainCodes, reply \in Replies :
        \E careValue \in CareValues(reply) :
            MainCall("chat",
                     chatWithCloud(soul, store, hw, env, cloud, main, code,
                                   careValue, now),
                     code, reply)

\* handleButtons: love (A, 1.5) or poke (B, 0.5)
MButtonCare ==
    \E intensity \in {(3 * Scale) \div 2, Scale \div 2}, code \in MainCodes :
        MainCall("button",
                 buttonCare(soul, store, hw, env, cloud, main, intensity,
                            code, now),
                 code, NoReply)

\* handleButtons: both buttons held
MSync ==
    \E code \in MainCodes :
        MainCall("sync",
                 syncWithCloud(soul, store, hw, env, cloud, main, code, now),
                 code, NoReply)

\* loop(): checkAutoSync(), past its early return
MAutoSync ==
    \E code \in MainCodes :
        /\ now - main.lastAutoSync >= AUTO_SYNC_INTERVAL_MS
        /\ MainCall("autosync",
                    checkAutoSync(soul, store, hw, env, cloud, main, code,
                                  now),
                    code, NoReply)

\* loop(): WiFi is down and it is time to try again
MReconnect ==
    \E wifiOk \in BOOLEAN, code \in MainCodes :
        /\ ~main.wifiConnected
        /\ MainCall("reconnect",
                    reconnectWiFi(soul, store, hw, env, cloud, main, wifiOk,
                                  code, now),
                    code, NoReply)

MTick ==
    \E d \in MainSteps :
        /\ phase = "run"
        /\ MainStep
        /\ now' = now + d
        /\ UNCHANGED <<soul, store, cloud, main, obs, hw, phase, notMain>>

NextMain ==
    \/ MSetup
    \/ MChat
    \/ MButtonCare
    \/ MSync
    \/ MAutoSync
    \/ MReconnect
    \/ MTick

SpecMain == InitMain /\ [][NextMain]_vars

(***************************************************************************)
(* Properties of the running firmware                                      *)
(***************************************************************************)
\* the number of connectionFailed() calls at the end of a history of calls
\* on offlineMode, back to the last connectionSuccess()
RECURSIVE TrailingFailures(_)
TrailingFailures(h) ==
    IF h = <<>> \/ h[Len(h)] # "failed" THEN 0
    ELSE 1 + TrailingFailures(SubSeq(h, 1, Len(h) - 1))

\* C14: the offline flag is false after connectionSuccess() and after one
\* connectionFailed() that follows it, true from the second consecutive
\* connectionFailed() on, and false again, with the failure count at 0,
\* after the next connectionSuccess().
C14_OfflineAfterSecondFailure ==
    LET f == TrailingFailures(obs.conn)
    IN  /\ main.offlineMode.isOffline <=> f >= 2
        /\ main.offlineMode.consecutiveFailures = f

\* C14 witness: a success, two failures that raised the flag, and the
\* success that cleared it.
C14_Witness ==
    /\ Len(obs.conn) >= 4
    /\ SubSeq(obs.conn, Len(obs.conn) - 3, Len(obs.conn))
           = <<"success", "failed", "failed", "success">>
    /\ ~main.offlineMode.isOffline
    /\ main.offlineMode.consecutiveFailures = 0

\* C15: while the firmware runs, consecutive_failures >= 2 in the cloud
\* client implies that the offline flag is set.
C15_TwoCloudFailuresRaiseOffline ==
    (phase = "run" /\ cloud.status.consecutive_failures >= 2)
        => main.offlineMode.isOffline

\* the chat handler ran in this step
IsChat == obs'.seq # obs.seq /\ obs'.op = "chat"

\* C16: a chat answered locally (any branch but the remote one) makes one
\* applyCare call, with a small fixed positive care.
C16_FallbackAppliesCareOnce ==
    [][(IsChat /\ obs'.path # "remote") =>
          /\ soul'.data.interactions = soul.data.interactions + 1
          /\ obs'.care \in {CARE_OFFLINE, CARE_BILLING}]_vars

QueuedExchanges(h) == Len(SelectSeq(h, LAMBDA x : x = "queued"))

\* C23: each chat answered locally appends one entry to the queue of recent
\* exchanges (the guide's OfflineMode::queueInteraction, 20 entries, the
\* oldest evicted): after such a chat one more exchange has been queued.
C23_FallbackExchangeIsQueued ==
    [][(IsChat /\ obs'.path # "remote") =>
          QueuedExchanges(obs'.conn) = QueuedExchanges(obs.conn) + 1]_vars

\* CloudClient::chat assigns response, expression and *careValue inside
\* if (!deserializeJson(respDoc, resp)), itself inside if (code == 200)
ChatOutputsWritten(code, reply) == code = 200 /\ reply.parsed

\* C25: whenever chat() returned true it has written its output parameters,
\* so the value chatWithCloud hands to applyCare is one chat() assigned, also
\* when the body of the 200 response does not parse.
C25_ChatTrueWritesOutputs ==
    [][(IsChat /\ obs'.path = "remote") =>
          /\ ChatOutputsWritten(obs'.code, obs'.reply)
          /\ obs'.care = obs'.reply.care]_vars

\* the handler of this step called offlineMode.connectionFailed()
ReportedFailure ==
    /\ Len(obs'.conn) = Len(obs.conn) + 1
    /\ obs'.conn[Len(obs'.conn)] = "failed"

\* C28: chatWithCloud calls offlineMode.connectionFailed() only when the
\* chat request went out and ended in a server error or a transport
\* failure; a call the backoff gate skipped, a 401 and any other non-5xx
\* answer do not count.
C28_OnlySentFailuresCount ==
    [][(IsChat /\ ReportedFailure) =>
          (obs'.issued /\ FailureCode(obs'.code))]_vars

====
